---- MODULE Spec2Model ----
(***************************************************************************)
(* Report generation service: org-hierarchy resolution behind a TTL cache, *)
(* the authorization check built on it, and the three v2 report operations *)
(* with the v2 controller endpoints that call them.                        *)
(*                                                                         *)
(* Python's None and the empty string are both falsy and are both written  *)
(* Empty here.  A Python list is a sequence.  The cache stores the list    *)
(* OBJECT the resolver returns, so a caller's list.append on the returned  *)
(* list is also an update of the cache entry (AppendAliased).              *)
(*                                                                         *)
(* Time is kept as the remaining lifetime of each cache entry ("left", in  *)
(* ticks): cachetools stores expires = timer() + ttl and compares it with  *)
(* timer(), which only depends on the difference.                          *)
(***************************************************************************)
EXTENDS Integers, Sequences, FiniteSets, TLC

VARIABLES
    mdo_org_cache,  \* _mdo_org_cache
    hierarchy,      \* the rows of MASTER_ORG_HIERARCHY_TABLE
    last,           \* the call just made: arguments, outcome, calls it made
    win             \* the TTL window opened by the first resolver call for
                    \* WatchedOrg and the hierarchy queries made for it
                    \* within that window (SpecTTL)

vars == <<mdo_org_cache, hierarchy, last, win>>

(***************************************************************************)
(* Bounds and configuration                                                *)
(***************************************************************************)
\* How many ids the callers may append to one cached org list (the lists
\* grow without limit).
MaxAppends == 2

\* Hierarchy queries counted within one TTL window (SpecTTL).
MaxWindowQueries == 2

\* Rows of the hierarchy tables explored by SpecQuery.
MaxRows == 2

\* ttl of the cache, in ticks (MAX_ORG_CACHE_AGE, set through the environment).
MAX_ORG_CACHE_AGE == 2

\* maxsize of the cache (MAX_ORG_CACHE_SIZE, set through the environment).
MAX_ORG_CACHE_SIZE == 2

Empty == ""

OrgIds == {"M1", "D1", "O1"}

OrgArgs == OrgIds \cup {Empty}

\* SQL NULL in a department_id or ministry_id column.
NULL == "NULL"

ToSet(s) == {s[i] : i \in 1..Len(s)}

\* Python: value in list
InList(v, s) == \E i \in 1..Len(s) : s[i] = v

(***************************************************************************)
(* The hierarchy table and the hierarchy query                             *)
(***************************************************************************)
Row(m, d, mi) == [mdo_id |-> m, department_id |-> d, ministry_id |-> mi]

\* SELECT ... WHERE keep(row), in table order.
RECURSIVE SelectMdoIds(_, _, _)
SelectMdoIds(table, col, input_id) ==
    IF table = <<>> THEN <<>>
    ELSE LET r == Head(table)
             rest == SelectMdoIds(Tail(table), col, input_id)
         IN IF r[col] = input_id THEN <<r.mdo_id>> \o rest ELSE rest

\* level_check: MAX(CASE WHEN col = input_id THEN 1 ELSE 0 END) = 1
LevelCheck(table, col, input_id) ==
    \E i \in 1..Len(table) : table[i][col] = input_id

\* Mutant: the department branch without its "AND is_ministry = 0".
OrgHierarchyQueryNoPrecedence(table, input_id) ==
    (IF LevelCheck(table, "department_id", input_id)
     THEN SelectMdoIds(table, "department_id", input_id) ELSE <<>>)
    \o
    (IF LevelCheck(table, "ministry_id", input_id)
     THEN SelectMdoIds(table, "ministry_id", input_id) ELSE <<>>)

\* The two branches of the query, UNION ALL.
OrgHierarchyQuery(table, input_id) ==
    (IF LevelCheck(table, "department_id", input_id)
        /\ ~LevelCheck(table, "ministry_id", input_id)
     THEN SelectMdoIds(table, "department_id", input_id) ELSE <<>>)
    \o
    (IF LevelCheck(table, "ministry_id", input_id)
     THEN SelectMdoIds(table, "ministry_id", input_id) ELSE <<>>)

(***************************************************************************)
(* cachetools.TTLCache: a sequence of entries in link order, oldest first  *)
(***************************************************************************)
Entry(k, v, l) == [key |-> k, val |-> v, left |-> l]

HasKey(c, k) == \E i \in 1..Len(c) : c[i].key = k

EntryOf(c, k) == c[CHOOSE i \in 1..Len(c) : c[i].key = k]

\* TTLCache.expire: drop the entries whose time is over
Expire(c) == SelectSeq(c, LAMBDA e : e.left > 0)

\* d ticks of the timer go by.  An entry whose time is over is invisible to
\* every operation of the cache (each one tests timer() < expires or expires
\* first), so it is dropped here and not at the next store.
Elapse(c, d) ==
    Expire([i \in 1..Len(c) |->
               [c[i] EXCEPT !.left = IF c[i].left > d THEN c[i].left - d ELSE 0]])

\* key in cache: the entry exists and timer() < expires
Contains(c, k) == HasKey(c, k) /\ EntryOf(c, k).left > 0

\* cache[key] = value: expire, make room by dropping the oldest, link last
SetItem(c, k, v) ==
    LET live == SelectSeq(Expire(c), LAMBDA e : e.key # k)
        room == IF Len(live) + 1 > MAX_ORG_CACHE_SIZE
                THEN SubSeq(live, Len(live) + 2 - MAX_ORG_CACHE_SIZE, Len(live))
                ELSE live
    IN Append(room, Entry(k, v, MAX_ORG_CACHE_AGE))

\* Mutant: the append lands on the lists held under the other keys.
AppendAliasedOtherLists(c, k, v) ==
    [i \in 1..Len(c) |->
        IF c[i].key # k THEN [c[i] EXCEPT !.val = Append(@, v)] ELSE c[i]]

\* list.append(v) on the list object held under key k
AppendAliased(c, k, v) ==
    [i \in 1..Len(c) |->
        IF c[i].key = k THEN [c[i] EXCEPT !.val = Append(@, v)] ELSE c[i]]

(***************************************************************************)
(* Call events                                                             *)
(***************************************************************************)
Ev(fn, key, ids, ok) == [fn |-> fn, key |-> key, ids |-> ids, ok |-> ok]

Count(calls, fn) == Cardinality({i \in 1..Len(calls) : calls[i].fn = fn})

HierQueries(calls) ==
    Cardinality({i \in 1..Len(calls) :
                    calls[i].fn = "run_query" /\ calls[i].key = "hierarchy"})

CacheAccesses(calls) ==
    Count(calls, "cache_contains") + Count(calls, "cache_getitem")
        + Count(calls, "cache_setitem")

(***************************************************************************)
(* ReportService._get_mdo_id_org_list                                      *)
(***************************************************************************)
\* Mutant: the resolver without its cache lookup.
get_mdo_id_org_list_no_lookup(c, table, mdo_id, qok, d) ==
    LET c1 == Elapse(c, d)
    IN IF ~qok
       THEN [cache |-> c1, raised |-> "QueryError", list |-> <<>>,
             calls |-> <<Ev("cache_contains", mdo_id, <<>>, FALSE),
                         Ev("run_query", "hierarchy", <<mdo_id>>, FALSE)>>]
       ELSE LET l == OrgHierarchyQuery(table, mdo_id)
            IN [cache |-> SetItem(c1, mdo_id, l), raised |-> "", list |-> l,
                calls |-> <<Ev("cache_contains", mdo_id, <<>>, FALSE),
                            Ev("run_query", "hierarchy", <<mdo_id>>, TRUE),
                            Ev("cache_setitem", mdo_id, l, TRUE)>>]

\* Mutant: a failed query leaves an empty list in the cache.
get_mdo_id_org_list_store_on_failure(c, table, mdo_id, qok, d) ==
    LET c1 == Elapse(c, d)
    IN IF Contains(c, mdo_id) /\ Contains(c1, mdo_id)
       THEN [cache |-> c1, raised |-> "", list |-> EntryOf(c1, mdo_id).val,
             calls |-> <<Ev("cache_contains", mdo_id, <<>>, TRUE),
                         Ev("cache_getitem", mdo_id, <<>>, TRUE)>>]
       ELSE IF Contains(c, mdo_id)
       THEN [cache |-> c1, raised |-> "KeyError", list |-> <<>>,
             calls |-> <<Ev("cache_contains", mdo_id, <<>>, TRUE),
                         Ev("cache_getitem", mdo_id, <<>>, FALSE)>>]
       ELSE IF ~qok
       THEN [cache |-> SetItem(c1, mdo_id, <<>>), raised |-> "QueryError",
             list |-> <<>>,
             calls |-> <<Ev("cache_contains", mdo_id, <<>>, FALSE),
                         Ev("run_query", "hierarchy", <<mdo_id>>, FALSE)>>]
       ELSE LET l == OrgHierarchyQuery(table, mdo_id)
            IN [cache |-> SetItem(c1, mdo_id, l), raised |-> "", list |-> l,
                calls |-> <<Ev("cache_contains", mdo_id, <<>>, FALSE),
                            Ev("run_query", "hierarchy", <<mdo_id>>, TRUE),
                            Ev("cache_setitem", mdo_id, l, TRUE)>>]

\* qok: run_query succeeds.  d: ticks between the call's two timer reads
\* (membership test and subscript on a hit; test and store on a miss).
get_mdo_id_org_list(c, table, mdo_id, qok, d) ==
    IF Contains(c, mdo_id)
    THEN LET c1 == Elapse(c, d)
         IN IF Contains(c1, mdo_id)
            THEN [cache |-> c1, raised |-> "", list |-> EntryOf(c1, mdo_id).val,
                  calls |-> <<Ev("cache_contains", mdo_id, <<>>, TRUE),
                              Ev("cache_getitem", mdo_id, <<>>, TRUE)>>]
            ELSE [cache |-> c1, raised |-> "KeyError", list |-> <<>>,
                  calls |-> <<Ev("cache_contains", mdo_id, <<>>, TRUE),
                              Ev("cache_getitem", mdo_id, <<>>, FALSE)>>]
    ELSE LET c1 == Elapse(c, d)
         IN IF ~qok
            THEN [cache |-> c1, raised |-> "QueryError", list |-> <<>>,
                  calls |-> <<Ev("cache_contains", mdo_id, <<>>, FALSE),
                              Ev("run_query", "hierarchy", <<mdo_id>>, FALSE)>>]
            ELSE LET l == OrgHierarchyQuery(table, mdo_id)
                 IN [cache |-> SetItem(c1, mdo_id, l), raised |-> "", list |-> l,
                     calls |-> <<Ev("cache_contains", mdo_id, <<>>, FALSE),
                                 Ev("run_query", "hierarchy", <<mdo_id>>, TRUE),
                                 Ev("cache_setitem", mdo_id, l, TRUE)>>]

(***************************************************************************)
(* ReportService.isValidOrg                                                *)
(***************************************************************************)
\* The record an isValidOrg call ends with.
ValidOut(result, caught, res, list, calls, cache) ==
    [cache |-> cache, result |-> result, raised |-> "", caught |-> caught,
     res |-> res, list |-> list, calls |-> calls]

\* Mutant: x_org_id is not added to the org list.
isValidOrgNoAppend(c, table, x_org_id, request_org_id, qok, d) ==
    IF request_org_id = Empty \/ x_org_id = Empty
    THEN ValidOut(FALSE, "", "", <<>>, <<>>, c)
    ELSE LET r == get_mdo_id_org_list(c, table, x_org_id, qok, d)
             bq == <<Ev("BigQueryService", "", <<>>, TRUE)>>
         IN IF r.raised # ""
            THEN ValidOut(FALSE, r.raised, r.raised, <<>>, bq \o r.calls, r.cache)
            ELSE ValidOut(InList(request_org_id, r.list), "", "list", r.list,
                          bq \o r.calls, r.cache)

\* Mutant: a failure of the resolver lets the request through.
isValidOrgFailOpen(c, table, x_org_id, request_org_id, qok, d) ==
    IF request_org_id = Empty \/ x_org_id = Empty
    THEN ValidOut(FALSE, "", "", <<>>, <<>>, c)
    ELSE LET r == get_mdo_id_org_list(c, table, x_org_id, qok, d)
             bq == <<Ev("BigQueryService", "", <<>>, TRUE)>>
         IN IF r.raised # ""
            THEN ValidOut(TRUE, r.raised, r.raised, <<>>, bq \o r.calls, r.cache)
            ELSE ValidOut(InList(request_org_id, Append(r.list, x_org_id)), "",
                          "list", r.list, bq \o r.calls,
                          AppendAliased(r.cache, x_org_id, x_org_id))

\* Mutant: the test of x_org_id is missing.
isValidOrgNoXCheck(c, table, x_org_id, request_org_id, qok, d) ==
    IF request_org_id = Empty
    THEN ValidOut(FALSE, "", "", <<>>, <<>>, c)
    ELSE LET r == get_mdo_id_org_list(c, table, x_org_id, qok, d)
             bq == <<Ev("BigQueryService", "", <<>>, TRUE)>>
         IN IF r.raised # ""
            THEN ValidOut(FALSE, r.raised, r.raised, <<>>, bq \o r.calls, r.cache)
            ELSE ValidOut(InList(request_org_id, Append(r.list, x_org_id)), "",
                          "list", r.list, bq \o r.calls,
                          AppendAliased(r.cache, x_org_id, x_org_id))

isValidOrg(c, table, x_org_id, request_org_id, qok, d) ==
    IF request_org_id = Empty
    THEN ValidOut(FALSE, "", "", <<>>, <<>>, c)
    ELSE IF x_org_id = Empty
    THEN ValidOut(FALSE, "", "", <<>>, <<>>, c)
    ELSE LET r == get_mdo_id_org_list(c, table, x_org_id, qok, d)
             bq == <<Ev("BigQueryService", "", <<>>, TRUE)>>
         IN IF r.raised # ""
            THEN \* except Exception: return False
                 ValidOut(FALSE, r.raised, r.raised, <<>>, bq \o r.calls, r.cache)
            ELSE LET org_list == Append(r.list, x_org_id)
                 IN ValidOut(InList(request_org_id, org_list), "", "list", r.list,
                             bq \o r.calls,
                             AppendAliased(r.cache, x_org_id, x_org_id))

(***************************************************************************)
(* ReportServiceV2: the three report operations                            *)
(***************************************************************************)
\* additional_filters.get('mdo_id_list', []): absent, a list, or another value
MdoIdList(kind, items) == [kind |-> kind, items |-> items]

NoMdoIdList == MdoIdList("absent", <<>>)

\* mdo_id_list and isinstance(mdo_id_list, list) and len(mdo_id_list) > 0
IsProvidedList(mdo) == mdo.kind = "list" /\ Len(mdo.items) > 0

\* The report query and what the operation makes of its outcome
\* (rq: "fail", "empty" or "rows"); the except clause returns None.
RunReportQuery(c, key, ids, rq, calls) ==
    [cache |-> c,
     result |-> IF rq = "rows" THEN "stream" ELSE "None",
     raised |-> "",
     caught |-> IF rq = "fail" THEN "QueryError" ELSE "",
     res |-> "", list |-> <<>>,
     calls |-> Append(calls, Ev("run_query", key, ids, rq # "fail"))]

\* Mutant: mdo_id_list is not looked at.
OrgScopedReportIgnoreList(c, table, key, org_id, full, mdo, qok, d, rq) ==
    LET bq == <<Ev("BigQueryService", "", <<>>, TRUE)>>
    IN IF full
       THEN LET r == get_mdo_id_org_list(c, table, org_id, qok, d)
            IN IF r.raised # ""
               THEN [cache |-> r.cache, result |-> "None", raised |-> "",
                     caught |-> r.raised, res |-> r.raised, list |-> <<>>,
                     calls |-> bq \o r.calls]
               ELSE [RunReportQuery(AppendAliased(r.cache, org_id, org_id), key,
                                    Append(r.list, org_id), rq, bq \o r.calls)
                        EXCEPT !.res = "list", !.list = r.list]
       ELSE RunReportQuery(c, key, <<org_id>>, rq, bq)

\* generate_report and generate_org_user_report share the org-id logic; key
\* names the table queried.
OrgScopedReport(c, table, key, org_id, full, mdo, qok, d, rq) ==
    LET bq == <<Ev("BigQueryService", "", <<>>, TRUE)>>
    IN IF IsProvidedList(mdo)
       THEN RunReportQuery(c, key, mdo.items, rq, bq)
       ELSE IF full
       THEN LET r == get_mdo_id_org_list(c, table, org_id, qok, d)
            IN IF r.raised # ""
               THEN \* except Exception: return None
                    [cache |-> r.cache, result |-> "None", raised |-> "",
                     caught |-> r.raised, res |-> r.raised, list |-> <<>>,
                     calls |-> bq \o r.calls]
               ELSE [RunReportQuery(AppendAliased(r.cache, org_id, org_id), key,
                                    Append(r.list, org_id), rq, bq \o r.calls)
                        EXCEPT !.res = "list", !.list = r.list]
       ELSE RunReportQuery(c, key, <<org_id>>, rq, bq)

generate_report(c, table, org_id, full, mdo, qok, d, rq) ==
    OrgScopedReport(c, table, "enrolments", org_id, full, mdo, qok, d, rq)

generate_org_user_report(c, table, mdo_id, full, mdo, qok, d, rq) ==
    OrgScopedReport(c, table, "users", mdo_id, full, mdo, qok, d, rq)

\* A row of the user lookup: SELECT user_id, mdo_id
User(u, m) == [user_id |-> u, mdo_id |-> m]

RECURSIVE UserIds(_)
UserIds(rows) ==
    IF rows = <<>> THEN <<>> ELSE <<Head(rows).user_id>> \o UserIds(Tail(rows))

\* The enrolment query of generate_user_report; a failure is re-raised.
RunEnrolmentQuery(c, user_ids, rq, res, list, calls) ==
    [cache |-> c,
     result |-> IF rq = "rows" THEN "stream"
                ELSE IF rq = "empty" THEN "None" ELSE "raise",
     raised |-> IF rq = "fail" THEN "QueryError" ELSE "",
     caught |-> "", res |-> res, list |-> list,
     calls |-> Append(calls, Ev("run_query", "enrolments_by_user", user_ids,
                                rq # "fail"))]

\* Mutant: the enrolment query runs whatever the user lookup returned.
generate_user_report_no_short_circuit(c, table, sel, orgId, uq, qok, d, rq) ==
    LET bq == <<Ev("BigQueryService", "", <<>>, TRUE)>>
        lookup == <<Ev("run_query", "user_lookup",
                      IF uq = "fail" THEN <<>> ELSE UserIds(uq), uq # "fail")>>
    IN RunEnrolmentQuery(c, IF uq = "fail" THEN <<>> ELSE UserIds(uq), rq, "",
                         <<>>, bq \o lookup)

\* Mutant: the caller's orgId is not compared with the user's org.
generate_user_report_no_org_check(c, table, sel, orgId, uq, qok, d, rq) ==
    LET bq == <<Ev("BigQueryService", "", <<>>, TRUE)>>
        lookup == <<Ev("run_query", "user_lookup",
                      IF uq = "fail" THEN <<>> ELSE UserIds(uq), uq # "fail")>>
        out(result, raised, calls) ==
            [cache |-> c, result |-> result, raised |-> raised, caught |-> "",
             res |-> "", list |-> <<>>, calls |-> calls]
    IN IF \A i \in 1..Len(sel) : sel[i] = Empty
       THEN out("None", "", <<>>)
       ELSE IF uq = "fail"
       THEN out("raise", "QueryError", bq \o lookup)
       ELSE IF uq = <<>>
       THEN out("None", "", bq \o lookup)
       ELSE RunEnrolmentQuery(c, UserIds(uq), rq, "", <<>>, bq \o lookup)

\* sel: the email, phone and ehrms_id arguments.  uq: the outcome of the user
\* lookup, "fail" or the rows returned.
generate_user_report(c, table, sel, orgId, uq, qok, d, rq) ==
    LET bq == <<Ev("BigQueryService", "", <<>>, TRUE)>>
        lookup == <<Ev("run_query", "user_lookup",
                      IF uq = "fail" THEN <<>> ELSE UserIds(uq), uq # "fail")>>
        out(result, raised, res, list, calls, cache) ==
            [cache |-> cache, result |-> result, raised |-> raised,
             caught |-> "", res |-> res, list |-> list, calls |-> calls]
    IN IF \A i \in 1..Len(sel) : sel[i] = Empty
       THEN out("None", "", "", <<>>, <<>>, c)
       ELSE IF uq = "fail"
       THEN out("raise", "QueryError", "", <<>>, bq \o lookup, c)
       ELSE IF uq = <<>>
       THEN out("None", "", "", <<>>, bq \o lookup, c)
       ELSE LET user_mdo_id == uq[1].mdo_id
            IN IF orgId # Empty /\ orgId # user_mdo_id
               THEN LET r == get_mdo_id_org_list(c, table, orgId, qok, d)
                        calls == bq \o lookup \o r.calls
                    IN IF r.raised # ""
                       THEN out("raise", r.raised, r.raised, <<>>, calls, r.cache)
                       ELSE IF ~InList(user_mdo_id, Append(r.list, orgId))
                       THEN out("raise", "ValueError", "list", r.list, calls,
                                AppendAliased(r.cache, orgId, orgId))
                       ELSE RunEnrolmentQuery(
                                AppendAliased(r.cache, orgId, orgId),
                                UserIds(uq), rq, "list", r.list, calls)
               ELSE RunEnrolmentQuery(c, UserIds(uq), rq, "", <<>>, bq \o lookup)

(***************************************************************************)
(* report_controller_v2                                                    *)
(***************************************************************************)
\* How the token check of _validate_request_common ends: no token header, a
\* token that does not verify, a verified token of another org, or "pass"
\* (IS_VALIDATION_ENABLED is off, or the token verifies and is of org_id).
TokenChecks == {"missing", "invalid", "other_org", "pass"}

\* The request body: none, one whose dates do not parse, a usable one.
Bodies == {"missing", "bad_dates", "ok"}

Resp(status, c, calls) == [status |-> status, cache |-> c, calls |-> calls]

\* Mutant: the isValidOrg test is missing.
validate_request_common_no_check(c, table, x_org_id, org_id, token, qok, d) ==
    IF x_org_id = Empty THEN Resp("400", c, <<>>)
    ELSE IF token \in {"missing", "invalid"} THEN Resp("401", c, <<>>)
    ELSE IF token = "other_org" THEN Resp("403", c, <<>>)
    ELSE Resp("", c, <<>>)

\* status "" stands for the None that lets the request through.
validate_request_common(c, table, x_org_id, org_id, token, qok, d) ==
    IF x_org_id = Empty THEN Resp("400", c, <<>>)
    ELSE LET v == isValidOrg(c, table, x_org_id, org_id, qok, d)
             calls == Append(v.calls, Ev("isValidOrg", x_org_id, <<org_id>>, v.result))
         IN IF ~v.result THEN Resp("401", v.cache, calls)
            ELSE IF token \in {"missing", "invalid"} THEN Resp("401", v.cache, calls)
            ELSE IF token = "other_org" THEN Resp("403", v.cache, calls)
            ELSE Resp("", v.cache, calls)

\* csv_data falsy -> 404, an exception -> 500, a stream -> 200
StatusOf(r) ==
    IF r.result = "raise" THEN "500" ELSE IF r.result = "None" THEN "404" ELSE "200"

\* The response of an endpoint whose service call g was made after calls.
Served(fn, org_id, calls, g) ==
    Resp(StatusOf(g), g.cache,
         calls \o <<Ev(fn, org_id, <<>>, TRUE)>> \o g.calls)

(***************************************************************************)
(* State machine                                                           *)
(***************************************************************************)
\* O1 sits under department D1 and ministry M1; D1's own row lists D1 as its
\* department.
HierTable == <<Row("O1", "D1", "M1"), Row("D1", "D1", "M1")>>

MdoIdLists ==
    { NoMdoIdList, MdoIdList("list", <<>>), MdoIdList("list", <<"O1", "M1">>),
      MdoIdList("other", <<"O1">>) }

Selectors == { <<Empty, Empty, Empty>>, <<"e", Empty, Empty>>, <<Empty, "p", "x">> }

UserLookups ==
    { "fail", <<>>, <<User("u1", "O1")>>, <<User("u2", "M1")>>,
      <<User("u1", "O1"), User("u2", "M1")>> }

ReportOutcomes == {"fail", "empty", "rows"}

Obs(op, x, org, full, mdo, r) ==
    [op |-> op, x |-> x, org |-> org, full |-> full, mdo |-> mdo,
     result |-> r.result, raised |-> r.raised, caught |-> r.caught,
     res |-> r.res, list |-> r.list, calls |-> r.calls]

NoOutcome ==
    [result |-> "", raised |-> "", caught |-> "", res |-> "", list |-> <<>>,
     calls |-> <<>>]

\* No TTL window is open.
NoWindow == [left |-> 0, q |-> 0]

\* No call is in progress and no result is waiting for its caller.
IdleObs == Obs("idle", Empty, Empty, FALSE, NoMdoIdList, NoOutcome)

Idle == last.op = "idle"

Init ==
    /\ mdo_org_cache = <<>>
    /\ hierarchy = HierTable
    /\ last = IdleObs
    /\ win = NoWindow

\* Every cached org list is still short enough to follow.
ListsBounded(c) ==
    \A i \in 1..Len(c) :
        Len(c[i].val) <= Len(OrgHierarchyQuery(hierarchy, c[i].key)) + MaxAppends

\* A tick of the timer goes by between two calls.
Tick ==
    /\ mdo_org_cache # <<>>
    /\ Idle
    /\ mdo_org_cache' = Elapse(mdo_org_cache, 1)
    /\ UNCHANGED <<hierarchy, last, win>>

\* The caller has taken the result of the last call.
Return ==
    /\ ~Idle
    /\ last' = IdleObs
    /\ UNCHANGED <<mdo_org_cache, hierarchy, win>>

IsValidOrgCall(x_org_id, request_org_id, qok, d) ==
    /\ Idle
    /\ \E r \in {isValidOrg(mdo_org_cache, hierarchy, x_org_id, request_org_id,
                            qok, d)} :
         /\ ListsBounded(r.cache)
         /\ mdo_org_cache' = r.cache
         /\ last' = Obs("isValidOrg", x_org_id, request_org_id, FALSE, NoMdoIdList,
                        [r EXCEPT !.result = IF r.result THEN "True" ELSE "False"])
    /\ UNCHANGED hierarchy

IsValidOrg(x_org_id, request_org_id, qok, d) ==
    IsValidOrgCall(x_org_id, request_org_id, qok, d) /\ UNCHANGED win

GenerateReport(org_id, full, mdo, qok, d, rq) ==
    /\ Idle
    /\ \E r \in {generate_report(mdo_org_cache, hierarchy, org_id, full, mdo,
                                 qok, d, rq)} :
         /\ ListsBounded(r.cache)
         /\ mdo_org_cache' = r.cache
         /\ last' = Obs("generate_report", Empty, org_id, full, mdo, r)
    /\ UNCHANGED <<hierarchy, win>>

GenerateOrgUserReport(mdo_id, full, mdo, qok, d, rq) ==
    /\ Idle
    /\ \E r \in {generate_org_user_report(mdo_org_cache, hierarchy, mdo_id, full,
                                          mdo, qok, d, rq)} :
         /\ ListsBounded(r.cache)
         /\ mdo_org_cache' = r.cache
         /\ last' = Obs("generate_org_user_report", Empty, mdo_id, full, mdo, r)
    /\ UNCHANGED <<hierarchy, win>>

GenerateUserReport(sel, orgId, uq, qok, d, rq) ==
    /\ Idle
    /\ \E r \in {generate_user_report(mdo_org_cache, hierarchy, sel, orgId, uq,
                                      qok, d, rq)} :
         /\ ListsBounded(r.cache)
         /\ mdo_org_cache' = r.cache
         /\ last' = Obs("generate_user_report", Empty, orgId, FALSE, NoMdoIdList, r)
                        @@ [uq |-> uq, sel |-> sel]
    /\ UNCHANGED <<hierarchy, win>>

\* An endpoint's response is recorded with the calls the request made.
Answer(op, x_org_id, org_id, full, mdo, resp) ==
    /\ ListsBounded(resp.cache)
    /\ mdo_org_cache' = resp.cache
    /\ last' = Obs(op, x_org_id, org_id, full, mdo,
                   [NoOutcome EXCEPT !.result = resp.status, !.calls = resp.calls])
    /\ UNCHANGED <<hierarchy, win>>

\* What the hierarchy backend does during a call: <<run_query succeeds, ticks
\* that go by>>.  A call that does not reach the resolver takes no such input.
Backends(resolves) ==
    IF resolves THEN BOOLEAN \X (0..1) ELSE {<<TRUE, 0>>}

\* generate_report and generate_org_user_report reach the resolver
ResolvesOrg(full, mdo) == full /\ ~IsProvidedList(mdo)

\* generate_user_report reaches the resolver
ResolvesUser(orgId, uq) ==
    uq # "fail" /\ uq # <<>> /\ orgId # Empty /\ orgId # uq[1].mdo_id

get_report(x_org_id, org_id, token, qok, d) ==
    /\ Idle
    /\ \E v \in {validate_request_common(mdo_org_cache, hierarchy, x_org_id,
                                         org_id, token, qok, d)} :
         IF v.status # ""
         THEN Answer("get_report", x_org_id, org_id, FALSE, NoMdoIdList, v)
         ELSE \E body \in Bodies :
                IF body # "ok"
                THEN Answer("get_report", x_org_id, org_id, FALSE, NoMdoIdList,
                            Resp("400", v.cache, v.calls))
                ELSE \E full \in BOOLEAN, mdo \in MdoIdLists, rq \in ReportOutcomes :
                     \E b \in Backends(ResolvesOrg(full, mdo)) :
                       Answer("get_report", x_org_id, org_id, full, mdo,
                              Served("generate_report", org_id, v.calls,
                                     generate_report(v.cache, hierarchy, org_id,
                                                     full, mdo, b[1], b[2], rq)))

get_org_user_report(x_org_id, orgId, token, qok, d) ==
    /\ Idle
    /\ \E v \in {validate_request_common(mdo_org_cache, hierarchy, x_org_id,
                                         orgId, token, qok, d)} :
         IF v.status # ""
         THEN Answer("get_org_user_report", x_org_id, orgId, FALSE, NoMdoIdList, v)
         ELSE \E body \in Bodies :
                IF body # "ok"
                THEN Answer("get_org_user_report", x_org_id, orgId, FALSE,
                            NoMdoIdList, Resp("400", v.cache, v.calls))
                ELSE \E full \in BOOLEAN, mdo \in MdoIdLists, rq \in ReportOutcomes :
                     \E b \in Backends(ResolvesOrg(full, mdo)) :
                       Answer("get_org_user_report", x_org_id, orgId, full, mdo,
                              Served("generate_org_user_report", orgId, v.calls,
                                     generate_org_user_report(v.cache, hierarchy,
                                         orgId, full, mdo, b[1], b[2], rq)))

get_user_report(x_org_id, orgId, token, qok, d) ==
    /\ Idle
    /\ \E v \in {validate_request_common(mdo_org_cache, hierarchy, x_org_id,
                                         orgId, token, qok, d)} :
         IF v.status # ""
         THEN Answer("get_user_report", x_org_id, orgId, FALSE, NoMdoIdList, v)
         ELSE \E body \in Bodies, sel \in Selectors :
                IF body # "ok" \/ \A i \in 1..Len(sel) : sel[i] = Empty
                THEN Answer("get_user_report", x_org_id, orgId, FALSE,
                            NoMdoIdList, Resp("400", v.cache, v.calls))
                ELSE \E uq \in UserLookups, rq \in ReportOutcomes :
                     \E b \in Backends(ResolvesUser(orgId, uq)) :
                       Answer("get_user_report", x_org_id, orgId, FALSE,
                              NoMdoIdList,
                              Served("generate_user_report", orgId, v.calls,
                                     generate_user_report(v.cache, hierarchy, sel,
                                         orgId, uq, b[1], b[2], rq)))

Services ==
    \/ \E x \in OrgArgs, y \in OrgArgs, qok \in BOOLEAN, d \in 0..1 :
          IsValidOrg(x, y, qok, d)
    \/ \E org \in OrgIds, full \in BOOLEAN, mdo \in MdoIdLists, qok \in BOOLEAN,
          d \in 0..1, rq \in ReportOutcomes :
          GenerateReport(org, full, mdo, qok, d, rq)
    \/ \E org \in OrgIds, full \in BOOLEAN, mdo \in MdoIdLists, qok \in BOOLEAN,
          d \in 0..1, rq \in ReportOutcomes :
          GenerateOrgUserReport(org, full, mdo, qok, d, rq)
    \/ \E sel \in Selectors, org \in OrgArgs, uq \in UserLookups, qok \in BOOLEAN,
          d \in 0..1, rq \in ReportOutcomes :
          GenerateUserReport(sel, org, uq, qok, d, rq)

Endpoints ==
    \/ \E x \in OrgArgs, org \in OrgIds, token \in TokenChecks, qok \in BOOLEAN,
          d \in 0..1 : get_report(x, org, token, qok, d)
    \/ \E x \in OrgArgs, org \in OrgIds, token \in TokenChecks, qok \in BOOLEAN,
          d \in 0..1 : get_user_report(x, org, token, qok, d)
    \/ \E x \in OrgArgs, org \in OrgIds, token \in TokenChecks, qok \in BOOLEAN,
          d \in 0..1 : get_org_user_report(x, org, token, qok, d)

\* The service operations, called directly.
Next == Tick \/ Return \/ Services

Spec == Init /\ [][Next]_vars

\* The v2 endpoints, which call the service operations.
NextCtl == Tick \/ Return \/ Endpoints

SpecCtl == Init /\ [][NextCtl]_vars

(***************************************************************************)
(* SpecTTL: resolver calls with the TTL window of the first call followed  *)
(***************************************************************************)
\* The org id whose resolver calls SpecTTL follows.
WatchedOrg == "D1"

\* d ticks go by: an open window runs down, and closes at 0.
Aged(w, d) ==
    IF w.left > d THEN [w EXCEPT !.left = @ - d] ELSE NoWindow

\* A resolver call for WatchedOrg that begins now, makes hq hierarchy queries
\* and takes d ticks: it falls into the open window, or opens one.
Track(w, hq, d) ==
    Aged(IF w.left > 0 THEN [w EXCEPT !.q = @ + hq]
         ELSE [left |-> MAX_ORG_CACHE_AGE, q |-> hq], d)

ResolverCalled(o) == Count(o.calls, "cache_contains") > 0

TickTTL ==
    /\ mdo_org_cache # <<>> \/ win.left > 0
    /\ Idle
    /\ mdo_org_cache' = Elapse(mdo_org_cache, 1)
    /\ win' = Aged(win, 1)
    /\ UNCHANGED <<hierarchy, last>>

IsValidOrgTTL(x_org_id, request_org_id, qok, d) ==
    /\ IsValidOrgCall(x_org_id, request_org_id, qok, d)
    /\ win' = IF ~ResolverCalled(last') THEN win
              ELSE IF x_org_id = WatchedOrg
              THEN Track(win, HierQueries(last'.calls), d)
              ELSE Aged(win, d)
    /\ win'.q <= MaxWindowQueries

NextTTL ==
    \/ TickTTL
    \/ Return
    \/ \E x \in OrgArgs, y \in OrgArgs, qok \in BOOLEAN, d \in 0..1 :
          IsValidOrgTTL(x, y, qok, d)

SpecTTL == Init /\ [][NextTTL]_vars

(***************************************************************************)
(* SpecQuery: the hierarchy query on every small hierarchy table           *)
(***************************************************************************)
Rows ==
    { Row(m, d, mi) : m \in OrgIds, d \in OrgIds \cup {NULL},
                      mi \in OrgIds \cup {NULL} }

Tables == UNION { [1..n -> Rows] : n \in 0..MaxRows }

InitQuery ==
    /\ mdo_org_cache = <<>>
    /\ hierarchy \in Tables
    /\ last = IdleObs
    /\ win = NoWindow

\* run_query(org_hierarchy_query) for input_id, as the cache-miss path runs it
RunHierarchyQuery(input_id) ==
    /\ Idle
    /\ last' = Obs("org_hierarchy_query", Empty, input_id, FALSE, NoMdoIdList,
                   [NoOutcome EXCEPT !.result = "list", !.res = "list",
                                     !.list = OrgHierarchyQuery(hierarchy, input_id)])
    /\ UNCHANGED <<mdo_org_cache, hierarchy, win>>

NextQuery == \E input_id \in OrgIds : RunHierarchyQuery(input_id)

SpecQuery == InitQuery /\ [][NextQuery]_vars

(***************************************************************************)
(* Properties                                                              *)
(***************************************************************************)
\* The key the call recorded in o handed to _get_mdo_id_org_list.
ResolvedKey(o) == IF o.op = "isValidOrg" THEN o.x ELSE o.org

HierQueryFailed(o) ==
    \E i \in 1..Len(o.calls) :
        /\ o.calls[i].fn = "run_query"
        /\ o.calls[i].key = "hierarchy"
        /\ ~o.calls[i].ok

\* The report queries (not the hierarchy query, not the user lookup) of o.
ReportQueries(o) ==
    SelectSeq(o.calls, LAMBDA e : e.fn = "run_query"
                                  /\ e.key \in {"enrolments", "users",
                                                "enrolments_by_user"})

SelfCheck(o) == o.op = "isValidOrg" /\ o.x # Empty /\ o.x = o.org

\* C1 as stated: isValidOrg(X, X) returns true for every non-empty X, in every
\* state of the cache and for every outcome of the hierarchy query.
C1_SelfAlwaysAuthorized == SelfCheck(last) => last.result = "True"

\* C1, amended: isValidOrg(X, X) with a non-empty X returns true exactly when
\* _get_mdo_id_org_list(X) returns a list; when the resolver raises it
\* returns false.
C1_SelfAuthorizedUnlessResolverFails ==
    SelfCheck(last) => (last.result = "True" <=> last.res = "list")

\* An org that no hierarchy row lists under itself was authorized for itself.
C1_Witness ==
    /\ SelfCheck(last)
    /\ last.result = "True"
    /\ ~InList(last.x, OrgHierarchyQuery(hierarchy, last.x))

\* C2: isValidOrg never raises; for non-empty arguments it returns true
\* exactly when request_org_id is in the list the resolver returned or is
\* x_org_id, and false whenever the resolver or its query raised.
C2_MembershipOrFailClosed ==
    (last.op = "isValidOrg" /\ last.x # Empty /\ last.org # Empty) =>
        /\ last.raised = ""
        /\ last.res \in {"list", "QueryError", "KeyError"}
        /\ last.res = "list" =>
              (last.result = "True" <=> last.org \in ToSet(last.list) \cup {last.x})
        /\ last.res # "list" => last.result = "False"

\* The hierarchy query failed during a self check and the answer was false.
C2_Witness ==
    /\ SelfCheck(last)
    /\ HierQueryFailed(last)
    /\ last.result = "False"
    /\ last.raised = ""

\* C3: with x_org_id or request_org_id empty, isValidOrg returns false,
\* creates no BigQueryService and neither reads nor writes the org cache.
C3_EmptyArgumentTouchesNothing ==
    [][(last'.op = "isValidOrg" /\ (last'.x = Empty \/ last'.org = Empty)) =>
          /\ last'.result = "False"
          /\ Count(last'.calls, "BigQueryService") = 0
          /\ CacheAccesses(last'.calls) = 0
          /\ HierQueries(last'.calls) = 0
          /\ mdo_org_cache' = mdo_org_cache]_vars

\* An empty x_org_id was refused while the cache held the scope of some org.
C3_Witness ==
    /\ last.op = "isValidOrg"
    /\ last.x = Empty
    /\ last.org # Empty
    /\ last.result = "False"
    /\ mdo_org_cache # <<>>

\* C4 as stated: the value cached for K, and the value the resolver returns
\* for K, is the org list the hierarchy query produced for K (so it holds K
\* only if the hierarchy rows list K under K).
C4_CacheHoldsQueryResult ==
    /\ \A i \in 1..Len(mdo_org_cache) :
          mdo_org_cache[i].val = OrgHierarchyQuery(hierarchy, mdo_org_cache[i].key)
    /\ last.res = "list" =>
          last.list = OrgHierarchyQuery(hierarchy, ResolvedKey(last))

\* C5 as stated: the calls for one org id made within the TTL window of the
\* first one cause at most one hierarchy query in total, and a call made when
\* the entry has expired causes exactly one.
C5_OneQueryPerWindow ==
    [][/\ win'.q <= 1
       /\ (ResolverCalled(last') /\ last'.x = WatchedOrg
              /\ ~Contains(mdo_org_cache, WatchedOrg))
            => HierQueries(last'.calls) = 1]_vars

\* C5, amended: a call for an org id whose entry is in the cache and has not
\* expired causes no hierarchy query; a call that finds no such entry (never
\* stored because the query failed, expired, or evicted) causes exactly one,
\* and when that query succeeds the entry is stored for a full TTL.
C5_NoQueryWhileEntryLives ==
    [][ResolverCalled(last') =>
          /\ Contains(mdo_org_cache, last'.x) => HierQueries(last'.calls) = 0
          /\ ~Contains(mdo_org_cache, last'.x) => HierQueries(last'.calls) = 1
          /\ (HierQueries(last'.calls) = 1 /\ ~HierQueryFailed(last')) =>
                /\ Contains(mdo_org_cache', last'.x)
                /\ EntryOf(mdo_org_cache', last'.x).left = MAX_ORG_CACHE_AGE]_vars

\* A second call within the window was served from the cache.
C5_Witness ==
    /\ ResolverCalled(last)
    /\ last.x = WatchedOrg
    /\ last.res = "list"
    /\ HierQueries(last.calls) = 0
    /\ win.q = 1

\* C6 as stated: _get_mdo_id_org_list fails only when run_query fails; on
\* every other path it returns a list, empty for an id no row names.
C6_FailsOnlyWhenQueryFails ==
    ResolverCalled(last) =>
        /\ last.res # "list" => HierQueryFailed(last)
        /\ (last.res = "list" /\ HierQueries(last.calls) = 1
              /\ ~LevelCheck(hierarchy, "department_id", ResolvedKey(last))
              /\ ~LevelCheck(hierarchy, "ministry_id", ResolvedKey(last)))
            => last.list = <<>>

\* The rows of t whose column col holds id.
RowsWhere(t, col, id) == {i \in 1..Len(t) : t[i][col] = id}

QueryRan(o) == o.op = "org_hierarchy_query"

OrgScopedOp(o) == o.op \in {"generate_report", "generate_org_user_report"}

\* C8: the org-id set of the query generate_report and
\* generate_org_user_report execute is mdo_id_list when that is a non-empty
\* list (the resolver is then not called, whatever org_id and
\* is_full_report_required are); otherwise the scope of org_id with org_id
\* when is_full_report_required; otherwise org_id alone.
C8_OrgIdSet ==
    OrgScopedOp(last) =>
        LET q == ReportQueries(last)
        IN /\ Len(q) <= 1
           /\ IsProvidedList(last.mdo) =>
                 /\ Len(q) = 1
                 /\ q[1].ids = last.mdo.items
                 /\ ~ResolverCalled(last)
                 /\ HierQueries(last.calls) = 0
           /\ (~IsProvidedList(last.mdo) /\ last.full /\ Len(q) = 1) =>
                 ToSet(q[1].ids) =
                    ToSet(OrgHierarchyQuery(hierarchy, last.org)) \cup {last.org}
           /\ (~IsProvidedList(last.mdo) /\ ~last.full) =>
                 /\ Len(q) = 1
                 /\ q[1].ids = <<last.org>>
                 /\ ~ResolverCalled(last)

\* A full report was asked for with an mdo_id_list that names other orgs.
C8_Witness ==
    /\ OrgScopedOp(last)
    /\ last.full
    /\ IsProvidedList(last.mdo)
    /\ ~InList(last.org, last.mdo.items)
    /\ Len(ReportQueries(last)) = 1

EndpointOp(o) == o.op \in {"get_report", "get_user_report", "get_org_user_report"}

ReportWork(e) ==
    \/ e.fn \in {"generate_report", "generate_user_report",
                 "generate_org_user_report"}
    \/ e.fn = "run_query" /\ e.key # "hierarchy"

\* C9: in each v2 endpoint no generate_* call and no report query happens
\* unless isValidOrg(x_org_id, org_id) was called earlier in the same request
\* and returned true.
C9_AuthorizedBeforeReport ==
    EndpointOp(last) =>
        \A i \in 1..Len(last.calls) :
            ReportWork(last.calls[i]) =>
                \E j \in 1..(i - 1) :
                    /\ last.calls[j].fn = "isValidOrg"
                    /\ last.calls[j].key = last.x
                    /\ last.calls[j].ids = <<last.org>>
                    /\ last.calls[j].ok

\* An endpoint served a report for an org other than the caller's own.
C9_Witness ==
    /\ EndpointOp(last)
    /\ last.result = "200"
    /\ last.x # last.org
    /\ \E i \in 1..Len(last.calls) : ReportWork(last.calls[i])

EmptyLookup(e) ==
    e.fn = "run_query" /\ e.key = "user_lookup" /\ e.ok /\ e.ids = <<>>

\* C10: when the user lookup of generate_user_report returns no rows the
\* operation returns None and run_query was called exactly once.
C10_NoUserNoEnrolmentQuery ==
    (last.op = "generate_user_report"
        /\ \E i \in 1..Len(last.calls) : EmptyLookup(last.calls[i])) =>
        /\ last.result = "None"
        /\ Count(last.calls, "run_query") = 1
        /\ ReportQueries(last) = <<>>

\* The lookup of a user report found nobody.
C10_Witness ==
    /\ last.op = "generate_user_report"
    /\ \E i \in 1..Len(last.calls) : EmptyLookup(last.calls[i])
    /\ last.result = "None"

\* The first row of the user lookup: user_df["mdo_id"].iloc[0]
UserMdoId(o) == o.uq[1].mdo_id

\* The caller's orgId is given and is not the org of the user found.
ForeignUser(o) ==
    /\ o.op = "generate_user_report"
    /\ \E i \in 1..Len(o.calls) :
          o.calls[i].fn = "run_query" /\ o.calls[i].key = "user_lookup"
    /\ o.uq # "fail" /\ o.uq # <<>>
    /\ o.org # Empty
    /\ o.org # UserMdoId(o)

\* C11: in generate_user_report, when orgId is non-empty and differs from the
\* org of the user found, and that org is not in the resolver's list for
\* orgId plus orgId, the operation raises ValueError and the enrolment query
\* is not executed; the same user org measured against the hierarchy rows
\* never gets an enrolment query, whatever the resolver does.
C11_ForeignUserRefused ==
    ForeignUser(last) =>
        /\ (last.res = "list"
              /\ UserMdoId(last) \notin ToSet(last.list) \cup {last.org}) =>
                /\ last.result = "raise"
                /\ last.raised = "ValueError"
                /\ ReportQueries(last) = <<>>
        /\ UserMdoId(last) \notin
              ToSet(OrgHierarchyQuery(hierarchy, last.org)) \cup {last.org} =>
                /\ last.result = "raise"
                /\ ReportQueries(last) = <<>>

\* A department asked for the report of a user of its ministry and was
\* refused.
C11_Witness ==
    /\ ForeignUser(last)
    /\ last.res = "list"
    /\ UserMdoId(last) \notin ToSet(last.list) \cup {last.org}
    /\ last.raised = "ValueError"

(***************************************************************************)
(* ReportServiceV2._process_filters and the WHERE clause                   *)
(***************************************************************************)
\* Longest raw comparison value tried, in characters.
MaxValueLen == 4

\* Most fields in one additionalFilter mapping.
MaxFilters == 2

\* A Python str is the sequence of its characters.
Chars == {">", "<", "=", " ", "0", "7", "a"}

Digits == {"0", "7"}

DigitValue(ch) == IF ch = "7" THEN 7 ELSE 0

CharSeqs(n) == UNION { [1..k -> Chars] : k \in 0..n }

\* The values a JSON body can put in additionalFilter
PyStr(s) == [t |-> "str", s |-> s, items |-> <<>>, b |-> FALSE]

PyList(items) == [t |-> "list", s |-> <<>>, items |-> items, b |-> FALSE]

PyBool(b) == [t |-> "bool", s |-> <<>>, items |-> <<>>, b |-> b]

PyNone == [t |-> "None", s |-> <<>>, items |-> <<>>, b |-> FALSE]

\* float('nan'), what pandas puts in a cell without a value
PyNaN == [t |-> "float", s |-> <<"n", "a", "n">>, items |-> <<>>, b |-> FALSE]

\* bool(value)
Truthy(x) ==
    IF x.t = "bool" THEN x.b
    ELSE IF x.t = "str" THEN x.s # <<>>
    ELSE IF x.t = "list" THEN x.items # <<>>
    ELSE x.t = "float"

\* hash(value) is defined
Hashable(x) == x.t # "list"

RECURSIVE Concat(_)
Concat(ss) == IF ss = <<>> THEN <<>> ELSE Head(ss) \o Concat(Tail(ss))

\* str(value)
StrOf(x) ==
    IF x.t \in {"str", "float"} THEN x.s
    ELSE IF x.t = "bool"
    THEN (IF x.b THEN <<"T", "r", "u", "e">> ELSE <<"F", "a", "l", "s", "e">>)
    ELSE IF x.t = "None" THEN <<"N", "o", "n", "e">>
    ELSE <<"[">> \o Concat(x.items) \o <<"]">>

\* s.startswith(prefix)
StartsWith(s, prefix) ==
    Len(prefix) <= Len(s) /\ SubSeq(s, 1, Len(prefix)) = prefix

RECURSIVE LStrip(_)
LStrip(s) == IF s # <<>> /\ Head(s) = " " THEN LStrip(Tail(s)) ELSE s

RECURSIVE RStrip(_)
RStrip(s) ==
    IF s # <<>> /\ s[Len(s)] = " " THEN RStrip(SubSeq(s, 1, Len(s) - 1)) ELSE s

\* s.strip()
Strip(s) == RStrip(LStrip(s))

\* float(s) does not raise ValueError: over Chars, a run of digits with blanks
\* around it.
IsFloat(s) ==
    LET t == Strip(s) IN t # <<>> /\ \A i \in 1..Len(t) : t[i] \in Digits

RECURSIVE DecimalValue(_)
DecimalValue(t) ==
    IF t = <<>> THEN 0
    ELSE 10 * DecimalValue(SubSeq(t, 1, Len(t) - 1)) + DigitValue(t[Len(t)])

\* float(s)
FloatOf(s) == DecimalValue(Strip(s))

GE == <<">", "=">>

LE == <<"<", "=">>

EL == <<"=", "<">>

GT == <<">">>

LT == <<"<">>

EQ == <<"=">>

\* The keys of is_verified_karmayogi's values
TrueCap == <<"T", "r", "u", "e">>

FalseCap == <<"F", "a", "l", "s", "e">>

TrueLow == <<"t", "r", "u", "e">>

FalseLow == <<"f", "a", "l", "s", "e">>

FieldSpec(type, valid_operators, values) ==
    [type |-> type, valid_operators |-> valid_operators, values |-> values]

NoValues == [k \in {} |-> FALSE]

ENROLMENT_FILTER_CONFIG ==
    [content_id |-> FieldSpec("list", <<>>, NoValues),
     mdo_id_list |-> FieldSpec("list", <<>>, NoValues),
     user_id |-> FieldSpec("list", <<>>, NoValues),
     content_progress_percentage |->
         FieldSpec("comparison", <<GE, EL, GT, LT, EQ>>, NoValues),
     certificate_generated |-> FieldSpec("string", <<>>, NoValues)]

USER_FILTER_CONFIG ==
    [mdo_id_list |-> FieldSpec("list", <<>>, NoValues),
     status |-> FieldSpec("string", <<>>, NoValues),
     user_registration_date |->
         FieldSpec("comparison", <<GE, LE, GT, LT, EQ>>, NoValues),
     is_verified_karmayogi |->
         FieldSpec("boolean", <<>>,
                   [k \in {TrueCap, FalseCap, TrueLow, FalseLow} |->
                       k \in {TrueCap, TrueLow}]),
     groups |-> FieldSpec("list", <<>>, NoValues),
     user_id |-> FieldSpec("list", <<>>, NoValues),
     designation |-> FieldSpec("list", <<>>, NoValues)]

USER_REPORT_FILTER_CONFIG ==
    [content_id |-> FieldSpec("list", <<>>, NoValues),
     mdo_id_list |-> FieldSpec("list", <<>>, NoValues),
     content_progress_percentage |->
         FieldSpec("comparison", <<GT, LT, GE, LE, EQ>>, NoValues),
     certificate_generated |-> FieldSpec("string", <<>>, NoValues)]

\* One element of where_clause_parts: kind tells what arg is (a value for
\* "string", the items for "list", the float for "comparison", TRUE or FALSE
\* for "boolean", the dates or ids for "identity").
Fragment(kind, field, op, arg) ==
    [kind |-> kind, field |-> field, op |-> op, arg |-> arg]

\* Mutant: the first operator that is a prefix decides, numeric rest or not.
RECURSIVE ComparisonFragmentFirstPrefix(_, _, _)
ComparisonFragmentFirstPrefix(filter_name, operators, filter_str) ==
    IF operators = <<>> THEN <<>>
    ELSE LET operator == Head(operators)
             value == Strip(SubSeq(filter_str, Len(operator) + 1, Len(filter_str)))
         IN IF StartsWith(filter_str, operator)
            THEN (IF IsFloat(value)
                  THEN <<Fragment("comparison", filter_name, operator, FloatOf(value))>>
                  ELSE <<>>)
            ELSE ComparisonFragmentFirstPrefix(filter_name, Tail(operators),
                                               filter_str)

\* The operator loop of a comparison field: the fragment of the first
\* operator that is a prefix with a numeric rest, or nothing.
RECURSIVE ComparisonFragment(_, _, _)
ComparisonFragment(filter_name, operators, filter_str) ==
    IF operators = <<>> THEN <<>>
    ELSE LET operator == Head(operators)
             value == Strip(SubSeq(filter_str, Len(operator) + 1, Len(filter_str)))
         IN IF StartsWith(filter_str, operator) /\ IsFloat(value)
            THEN <<Fragment("comparison", filter_name, operator, FloatOf(value))>>
            ELSE ComparisonFragment(filter_name, Tail(operators), filter_str)

\* What one (filter_name, filter_value) item does to where_clause_parts;
\* raised names the exception that leaves the loop.
FilterStep(filter_config, filter_name, filter_value, parts) ==
    IF filter_name \notin DOMAIN filter_config
    THEN [raised |-> "", parts |-> parts]
    ELSE IF filter_name = "mdo_id_list"
    THEN [raised |-> "", parts |-> parts]
    ELSE LET item == filter_config[filter_name]
         IN IF item.type = "string" /\ Truthy(filter_value)
            THEN [raised |-> "",
                  parts |-> Append(parts, Fragment("string", filter_name, EQ,
                                                 filter_value))]
            ELSE IF item.type = "list" /\ filter_value.t = "list"
                    /\ Truthy(filter_value)
            THEN [raised |-> "",
                  parts |-> Append(parts, Fragment("list", filter_name, <<"I", "N">>,
                                                 filter_value.items))]
            ELSE IF item.type = "comparison" /\ Truthy(filter_value)
            THEN [raised |-> "",
                  parts |-> parts \o ComparisonFragment(filter_name,
                                        item.valid_operators,
                                        Strip(StrOf(filter_value)))]
            ELSE IF item.type = "boolean" /\ filter_value.t # "None"
            THEN IF ~Hashable(filter_value)
                 THEN \* filter_value in filter_config_item['values']
                      [raised |-> "TypeError", parts |-> parts]
                 ELSE IF filter_value.t = "str"
                         /\ filter_value.s \in DOMAIN item.values
                 THEN [raised |-> "",
                       parts |-> Append(parts,
                           Fragment("boolean", filter_name, EQ,
                                    item.values[filter_value.s]))]
                 ELSE [raised |-> "", parts |-> parts]
            ELSE [raised |-> "", parts |-> parts]

\* Mutant: a list field is looked at before the mdo_id_list test.
RECURSIVE process_filters_with_mdo_list(_, _, _)
process_filters_with_mdo_list(filters, filter_config, where_clause_parts) ==
    IF filters = <<>> THEN [raised |-> "", parts |-> where_clause_parts]
    ELSE LET name == Head(filters)[1]
             value == Head(filters)[2]
             r == IF name = "mdo_id_list" /\ name \in DOMAIN filter_config
                     /\ value.t = "list" /\ Truthy(value)
                  THEN [raised |-> "",
                        parts |-> Append(where_clause_parts,
                                         Fragment("list", name, <<"I", "N">>,
                                                  value.items))]
                  ELSE FilterStep(filter_config, name, value, where_clause_parts)
         IN IF r.raised # "" THEN r
            ELSE process_filters_with_mdo_list(Tail(filters), filter_config, r.parts)

\* filters: the items of the mapping, in its order.
RECURSIVE process_filters(_, _, _)
process_filters(filters, filter_config, where_clause_parts) ==
    IF filters = <<>> THEN [raised |-> "", parts |-> where_clause_parts]
    ELSE LET r == FilterStep(filter_config, Head(filters)[1], Head(filters)[2],
                             where_clause_parts)
         IN IF r.raised # "" THEN r
            ELSE process_filters(Tail(filters), filter_config, r.parts)

Shapes == {"enrolments", "users", "enrolments_by_user"}

\* The filter configuration each report operation passes
ConfigOf(shape) ==
    IF shape = "enrolments" THEN ENROLMENT_FILTER_CONFIG
    ELSE IF shape = "users" THEN USER_FILTER_CONFIG
    ELSE USER_REPORT_FILTER_CONFIG

\* The clauses each operation puts in where_clause_parts before the filters
IdentityClauses(shape, dated, ids) ==
    IF shape = "enrolments"
    THEN (IF dated THEN <<Fragment("identity", "enrolled_on", <<"BETWEEN">>, <<"dates">>)>> ELSE <<>>)
            \o <<Fragment("identity", "mdo_id", <<"i", "n">>, ids)>>
    ELSE IF shape = "users"
    THEN (IF dated THEN <<Fragment("identity", "user_registration_date", <<"BETWEEN">>,
                                   <<"dates">>)>>
          ELSE <<>>)
            \o <<Fragment("identity", "mdo_id", <<"i", "n">>, ids)>>
    ELSE <<Fragment("identity", "user_id", <<"I", "N">>, ids)>>
            \o (IF dated THEN <<Fragment("identity", "enrolled_on", <<"BETWEEN">>, <<"dates">>)>>
                ELSE <<>>)

\* where_clause_parts as " AND ".join receives it, or the exception
WhereClauseParts(shape, dated, ids, filters) ==
    process_filters(filters, ConfigOf(shape), IdentityClauses(shape, dated, ids))

ComparisonField(shape) ==
    IF shape = "users" THEN "user_registration_date"
    ELSE "content_progress_percentage"

\* Values tried on the boolean field
BooleanProbes ==
    { PyStr(TrueCap), PyStr(FalseCap), PyStr(TrueLow), PyStr(FalseLow),
      PyStr(<<"T", "R", "U", "E">>), PyStr(<<"a">>), PyStr(<<>>),
      PyBool(TRUE), PyBool(FALSE), PyNone, PyList(<<TrueCap>>), PyList(<<>>) }

\* Items mixed in one mapping
SampleItems ==
    { <<"content_id", PyList(<< <<"a">> >>)>>, <<"content_id", PyList(<<>>)>>,
      <<"content_id", PyStr(<<"a">>)>>,
      <<"mdo_id_list", PyList(<< <<"a">> >>)>>,
      <<"certificate_generated", PyStr(<<"a">>)>>,
      <<"certificate_generated", PyStr(<<>>)>>,
      <<"status", PyStr(<<"a">>)>>, <<"groups", PyList(<< <<"a">> >>)>>,
      <<"content_progress_percentage", PyStr(<<">", "7">>)>>,
      <<"is_verified_karmayogi", PyStr(TrueCap)>>,
      <<"bogus", PyStr(<<"a">>)>> }

\* A mapping has each key once.
DistinctNames(f) == \A i, j \in 1..Len(f) : i # j => f[i][1] # f[j][1]

FilterRequests(shape) ==
    { << <<ComparisonField(shape), PyStr(s)>> >> : s \in CharSeqs(MaxValueLen) }
        \cup { << <<"is_verified_karmayogi", v>> >> : v \in BooleanProbes }
        \cup { f \in UNION { [1..n -> SampleItems] : n \in 0..MaxFilters } :
                  DistinctNames(f) }

IdLists == { <<"O1">>, <<"O1", "M1">> }

\* A report operation assembles the WHERE clause of its query from the
\* additionalFilter mapping of the request.
AssembleQuery(shape, dated, ids) ==
    /\ Idle
    /\ \E filters \in FilterRequests(shape) :
       \E w \in {WhereClauseParts(shape, dated, ids, filters)} :
         last' = [op |-> "where_clause", shape |-> shape, dated |-> dated,
                  ids |-> ids, filters |-> filters, raised |-> w.raised,
                  where |-> IF w.raised = "" THEN w.parts ELSE <<>>]
    /\ UNCHANGED <<mdo_org_cache, hierarchy, win>>

NextFilters ==
    \E shape \in Shapes, dated \in BOOLEAN, ids \in IdLists :
        AssembleQuery(shape, dated, ids)

SpecFilters == Init /\ [][NextFilters]_vars

(***************************************************************************)
(* Properties of the WHERE clause                                          *)
(***************************************************************************)
WhereBuilt(o) == o.op = "where_clause" /\ o.raised = ""

\* The fragments of o.where that came from filter field name
FragmentsOf(o, name) ==
    SelectSeq(o.where, LAMBDA f : f.kind # "identity" /\ f.field = name)

IdentityPart(o) == SelectSeq(o.where, LAMBDA f : f.kind = "identity")

FilterPart(o) == SelectSeq(o.where, LAMBDA f : f.kind # "identity")

\* Some registered operator begins the text and leaves a number.
ComparisonAccepted(spec, value) ==
    LET text == Strip(StrOf(value))
    IN \E i \in 1..Len(spec.valid_operators) :
          LET op == spec.valid_operators[i]
          IN /\ StartsWith(text, op)
             /\ IsFloat(SubSeq(text, Len(op) + 1, Len(text)))

\* The field is one its configuration turns into a fragment.
Accepted(config, name, value) ==
    /\ name \in DOMAIN config
    /\ name # "mdo_id_list"
    /\ \/ config[name].type = "string" /\ Truthy(value)
       \/ config[name].type = "list" /\ value.t = "list" /\ value.items # <<>>
       \/ config[name].type = "comparison" /\ Truthy(value)
            /\ ComparisonAccepted(config[name], value)
       \/ config[name].type = "boolean" /\ value.t = "str"
            /\ value.s \in DOMAIN config[name].values

ComparisonProbe(o) ==
    /\ o.op = "where_clause"
    /\ Len(o.filters) = 1
    /\ o.filters[1][1] = ComparisonField(o.shape)
    /\ o.filters[1][2].t = "str"

\* C13: for the comparison field of each default configuration, a value made
\* of a registered operator followed by a numeric literal yields the one
\* fragment 'field, that operator, the literal as a float'; a value that
\* begins with a registered operator and leaves a number after none of them
\* yields no fragment, and nothing is raised.
C13_ComparisonFragment ==
    ComparisonProbe(last) =>
        LET field == ComparisonField(last.shape)
            ops == ConfigOf(last.shape)[field].valid_operators
            s == last.filters[1][2].s
            rest(op) == SubSeq(s, Len(op) + 1, Len(s))
            fits(op) == StartsWith(s, op) /\ IsFloat(rest(op))
        IN /\ last.raised = ""
           /\ \A i \in 1..Len(ops) :
                 fits(ops[i]) =>
                    FilterPart(last) =
                       <<Fragment("comparison", field, ops[i], FloatOf(rest(ops[i])))>>
           /\ ((\E i \in 1..Len(ops) : StartsWith(s, ops[i]))
                 /\ \A i \in 1..Len(ops) : ~fits(ops[i]))
                => FilterPart(last) = <<>>

\* '>=7' under a configuration that lists '>' before '>=' gave '>= 7.0'.
C13_Witness ==
    /\ ComparisonProbe(last)
    /\ last.shape = "enrolments_by_user"
    /\ last.filters[1][2].s = <<">", "=", "7">>
    /\ FilterPart(last) = <<Fragment("comparison", "content_progress_percentage", GE, 7)>>

\* The request holds the boolean field alone.
BooleanProbe(o) ==
    /\ o.op = "where_clause"
    /\ o.shape = "users"
    /\ Len(o.filters) = 1
    /\ o.filters[1][1] = "is_verified_karmayogi"

\* C14 as stated: for a boolean field, 'field = TRUE' or 'field = FALSE' is
\* emitted per the configured mapping exactly when the raw value is a key of
\* the field's values; any other value yields no fragment and no error.
C14_BooleanFragmentOrNothing ==
    BooleanProbe(last) =>
        LET values == USER_FILTER_CONFIG["is_verified_karmayogi"].values
            v == last.filters[1][2]
        IN /\ last.raised = ""
           /\ (v.t = "str" /\ v.s \in DOMAIN values) =>
                 FilterPart(last) =
                    <<Fragment("boolean", "is_verified_karmayogi", EQ, values[v.s])>>
           /\ ~(v.t = "str" /\ v.s \in DOMAIN values) => FilterPart(last) = <<>>

(***************************************************************************)
(* generate_csv_stream: the generator each report operation returns        *)
(***************************************************************************)
\* Most rows of a streamed table.
MaxStreamRows == 2

\* Longest email and phone number tried, in characters.
MaxEmailLen == 4

MaxPhoneLen == 5

EmailChars == {"a", "@", "."}

PhoneChars == {"1", "2"}

Strings(alphabet, n) == UNION { [1..k -> alphabet] : k \in 0..n }

\* s.split(sep)
RECURSIVE Split(_, _)
Split(s, sep) ==
    IF \A i \in 1..Len(s) : s[i] # sep THEN <<s>>
    ELSE LET i == CHOOSE k \in 1..Len(s) :
                     s[k] = sep /\ \A j \in 1..(k - 1) : s[j] # sep
         IN <<SubSeq(s, 1, i - 1)>> \o Split(SubSeq(s, i + 1, Len(s)), sep)

\* sep.join(parts)
RECURSIVE JoinWith(_, _)
JoinWith(parts, sep) ==
    IF parts = <<>> THEN <<>>
    ELSE IF Len(parts) = 1 THEN parts[1]
    ELSE parts[1] \o <<sep>> \o JoinWith(Tail(parts), sep)

\* '*' * n
Stars(n) == [i \in 1..n |-> "*"]

\* Mutant: the first character of the domain is kept.
MaskEmailKeepFirst(email) ==
    LET parts == Split(email, "@")
    IN IF Len(parts) = 2
       THEN parts[1] \o <<"@">> \o
            [i \in 1..Len(parts[2]) |->
                IF i = 1 \/ parts[2][i] = "." THEN parts[2][i] ELSE "*"]
       ELSE parts[1]

\* Lines 379-385
MaskEmail(email) ==
    LET parts == Split(email, "@")
    IN IF Len(parts) = 2
       THEN LET domain_parts == Split(parts[2], ".")
                masked_domain ==
                    JoinWith([i \in 1..Len(domain_parts) |->
                                 Stars(Len(domain_parts[i]))], ".")
            IN parts[1] \o <<"@">> \o masked_domain
       ELSE parts[1]

\* Lines 389-393
MaskPhone(phone) ==
    IF Len(phone) >= 4
    THEN Stars(Len(phone) - 4) \o SubSeq(phone, Len(phone) - 3, Len(phone))
    ELSE Stars(Len(phone))

\* dict(zip(cols, row)): a column named twice keeps its last cell
RowDict(cols, row) ==
    [c \in ToSet(cols) |->
        row[CHOOSE i \in 1..Len(cols) :
                cols[i] = c /\ \A j \in (i + 1)..Len(cols) : cols[j] # c]]

\* One data line: the cells' str() joined by '|', then a newline
Line(cells) == JoinWith([i \in 1..Len(cells) |-> StrOf(cells[i])], "|") \o <<"\n">>

Header(cols) == JoinWith([i \in 1..Len(cols) |-> <<cols[i]>>], "|") \o <<"\n">>

\* The loop body of the generator of generate_report and generate_user_report
PlainLine(cols, row) == [raised |-> "", line |-> Line(row)]

\* Mutant: the masking branch is never taken.
MaskedLineNoMasking(cols, row, masking) == [raised |-> "", line |-> Line(row)]

\* The loop body of the generator of generate_org_user_report; masking:
\* IS_MASKING_ENABLED.lower() == 'true'
MaskedLine(cols, row, masking) ==
    LET row_dict == RowDict(cols, row)
        has(c) == c \in DOMAIN row_dict /\ Truthy(row_dict[c])
    IN IF masking /\ has("email") /\ row_dict["email"].t # "str"
       THEN \* row_dict['email'].split: no such attribute
            [raised |-> "AttributeError", line |-> <<>>]
       ELSE LET d1 == IF masking /\ has("email")
                      THEN [row_dict EXCEPT !["email"] = PyStr(MaskEmail(@.s))]
                      ELSE row_dict
                d2 == IF masking /\ has("phone_number")
                      THEN [d1 EXCEPT !["phone_number"] = PyStr(MaskPhone(StrOf(@)))]
                      ELSE d1
            IN [raised |-> "", line |-> Line([i \in 1..Len(cols) |-> d2[cols[i]]])]

\* A ResultTable: column names and rows of cells in column order
Table(cols, rows) == [cols |-> cols, rows |-> rows]

\* [col for col in required_columns if col in df.columns]
ExistingColumns(required_columns, table) ==
    SelectSeq(required_columns, LAMBDA col : InList(col, table.cols))

\* df[existing_columns]
Project(table, existing_columns) ==
    LET at(col) == CHOOSE i \in 1..Len(table.cols) : table.cols[i] = col
    IN Table(existing_columns,
             [r \in 1..Len(table.rows) |->
                 [k \in 1..Len(existing_columns) |->
                     table.rows[r][at(existing_columns[k])]]])

\* The table handed to generate_csv_stream
StreamedTable(table, required_columns) ==
    IF required_columns # <<>>
    THEN Project(table, ExistingColumns(required_columns, table))
    ELSE table

\* The generator object a report operation returns: not started, its frame
\* holding df.  out: the lines pulled so far.  given: the rows df had.
NewStream(shape, masking, table, required_columns) ==
    LET df == StreamedTable(table, required_columns)
    IN [op |-> "stream", shape |-> shape, masking |-> masking,
        table |-> table, required_columns |-> required_columns,
        cols |-> df.cols, given |-> df.rows, df |-> df.rows,
        state |-> "created", pos |-> 0, out |-> <<>>, raised |-> "",
        cleaned |-> FALSE, exhausted |-> FALSE]

\* The line of one row, by the generator of the operation
RowLine(g, row) ==
    IF g.shape = "users" THEN MaskedLine(g.cols, row, g.masking)
    ELSE PlainLine(g.cols, row)

\* finally: df.drop(df.index, inplace=True); del df; gc.collect()
Cleanup(g) == [g EXCEPT !.df = <<>>, !.cleaned = TRUE, !.state = "closed"]

\* generator.close(), which is also what finalization of an abandoned
\* generator does: GeneratorExit is raised at the yield the generator is
\* suspended at; a generator that never started has no frame in the try.
GeneratorClose(g) ==
    IF g.state = "created" THEN [g EXCEPT !.state = "closed"]
    ELSE IF g.state = "suspended" THEN Cleanup(g)
    ELSE g

\* df.itertuples(index=False, name=None): zip(*arrays) over one array per
\* column, so a frame left with no column yields no tuple at all.
itertuples(cols, rows) == IF cols = <<>> THEN <<>> ELSE rows

\* next(generator) on a generator that is not closed
GeneratorNext(g) ==
    IF g.state = "created"
    THEN [g EXCEPT !.state = "suspended", !.out = <<Header(g.cols)>>]
    ELSE IF g.pos < Len(itertuples(g.cols, g.df))
    THEN LET r == RowLine(g, itertuples(g.cols, g.df)[g.pos + 1])
         IN IF r.raised # ""
            THEN \* the exception leaves the generator through finally
                 [Cleanup(g) EXCEPT !.raised = r.raised]
            ELSE [g EXCEPT !.pos = @ + 1, !.out = Append(@, r.line)]
    ELSE \* the loop ends: finally, then StopIteration
         [Cleanup(g) EXCEPT !.exhausted = TRUE]

UserIdCells == {PyStr(<<"u">>), PyStr(<<"v">>)}

EmailCells == {PyStr(<<"a", "@", "a", ".", "a">>), PyNone, PyNaN}

PhoneCells == {PyStr(<<"1", "2", "1", "2", "1">>), PyNone}

CellsOf(col) ==
    IF col = "email" THEN EmailCells
    ELSE IF col = "phone_number" THEN PhoneCells
    ELSE UserIdCells

ColumnLayouts ==
    { <<"user_id", "email", "phone_number">>, <<"phone_number", "user_id">>,
      <<"user_id">> }

RowsOf(cols) == { r \in [1..Len(cols) -> UNION {CellsOf(c) : c \in ToSet(cols)}] :
                     \A i \in 1..Len(cols) : r[i] \in CellsOf(cols[i]) }

\* Tables of up to MaxStreamRows rows (never empty: an empty result is
\* answered with None, not with a stream).
SmallTables ==
    UNION { { Table(cols, rows) :
                rows \in UNION { [1..n -> RowsOf(cols)] : n \in 1..MaxStreamRows } } :
            cols \in ColumnLayouts }

\* One-row tables that run through the emails and the phone numbers
ProbeTables ==
    { Table(<<"user_id", "email", "phone_number">>,
            << <<PyStr(<<"u">>), PyStr(e), PyStr(<<"1", "2", "1", "2", "1">>)>> >>) :
        e \in Strings(EmailChars, MaxEmailLen) }
    \cup
    { Table(<<"user_id", "email", "phone_number">>,
            << <<PyStr(<<"u">>), PyStr(<<"a", "@", "a">>), PyStr(ph)>> >>) :
        ph \in Strings(PhoneChars, MaxPhoneLen) }

RequiredColumns ==
    { <<>>, <<"email", "user_id">>, <<"user_id", "bogus">>, <<"bogus">> }

\* A report operation returns its stream for a non-empty result.
Export(shape, masking, required_columns) ==
    /\ Idle
    /\ \E table \in SmallTables \cup ProbeTables :
          last' = NewStream(shape, masking, table, required_columns)
    /\ UNCHANGED <<mdo_org_cache, hierarchy, win>>

\* The consumer pulls the next line.
Pull ==
    /\ last.op = "stream"
    /\ last.state # "closed"
    /\ last' = GeneratorNext(last)
    /\ UNCHANGED <<mdo_org_cache, hierarchy, win>>

\* The consumer closes the stream, or drops it and the interpreter
\* finalizes it.
Close ==
    /\ last.op = "stream"
    /\ last.state # "closed"
    /\ last' = GeneratorClose(last)
    /\ UNCHANGED <<mdo_org_cache, hierarchy, win>>

NextStream ==
    \/ \E shape \in Shapes, masking \in BOOLEAN, required_columns \in RequiredColumns :
          Export(shape, masking, required_columns)
    \/ Pull
    \/ Close

SpecStream == Init /\ [][NextStream]_vars

\* The stream in hand has been pulled to exhaustion.
Exhausted == last.op = "stream" /\ last.exhausted

\* The columns the export is to show
ChosenColumns(table, required_columns) ==
    IF required_columns = <<>> THEN table.cols
    ELSE SelectSeq(required_columns,
                   LAMBDA col : \E i \in 1..Len(table.cols) : table.cols[i] = col)

\* The cell of a table row under a column name
CellAt(table, row, col) ==
    row[CHOOSE i \in 1..Len(table.cols) : table.cols[i] = col]

\* The stream emits rows as they are (no masking applies to it).
Unmasked(g) == g.shape # "users" \/ ~g.masking

\* C15: the exhausted stream of every generate_* operation is one header line
\* of the chosen columns (all table columns in table order when
\* required_columns is empty, otherwise the requested columns that exist, in
\* the requested order), then exactly one line per result row, in the order
\* of the rows, none added, removed, duplicated or reordered.
C15_HeaderThenOneLinePerRow ==
    Exhausted =>
        LET chosen == ChosenColumns(last.table, last.required_columns)
            rows == last.table.rows
        IN /\ Len(last.out) = 1 + Len(rows)
           /\ last.out[1] = Header(chosen)
           /\ Unmasked(last) =>
                 \A k \in 1..Len(rows) :
                    last.out[k + 1] =
                       Line([i \in 1..Len(chosen) |->
                                CellAt(last.table, rows[k], chosen[i])])

\* The consumer has stopped pulling: the stream is exhausted, failed, closed
\* or abandoned.
Stopped == last.op = "stream" /\ last.state = "closed"

\* C16: once the consumer stops pulling from a stream, by exhausting it or by
\* closing or abandoning it at any earlier point, before the first pull
\* included, the cleanup has run and the rows of the streamed table are
\* dropped.
C16_CleanupOnEveryStop == Stopped => (last.cleaned /\ last.df = <<>>)

\* A user-by-org stream with masking enabled
MaskingStream == last.op = "stream" /\ last.shape = "users" /\ last.masking

\* The masked form of an email, character by character
ExpectedEmail(e) ==
    LET ats == { i \in 1..Len(e) : e[i] = "@" }
    IN IF Cardinality(ats) = 1
       THEN LET a == CHOOSE i \in ats : TRUE
            IN [i \in 1..Len(e) |->
                   IF i <= a \/ e[i] = "." THEN e[i] ELSE "*"]
       ELSE IF ats = {} THEN e
       ELSE SubSeq(e, 1, (CHOOSE i \in ats : \A j \in ats : i <= j) - 1)

\* The masked form of a phone number, character by character
ExpectedPhone(ph) ==
    [i \in 1..Len(ph) |->
        IF Len(ph) >= 4 /\ i > Len(ph) - 4 THEN ph[i] ELSE "*"]

\* The field a masking stream is to show for a cell
ExpectedField(col, cell) ==
    IF col = "email" /\ cell.t = "str" /\ cell.s # <<>>
    THEN ExpectedEmail(cell.s)
    ELSE IF col = "phone_number" /\ cell.t = "str" /\ cell.s # <<>>
    THEN ExpectedPhone(cell.s)
    ELSE StrOf(cell)

\* C17: with masking enabled every line the user-by-org stream has emitted
\* shows a non-empty email with exactly one '@' as local part, '@' and the
\* domain with each character but the dots replaced by '*', an email with no
\* or several '@' as the part before the first '@', a non-empty phone_number
\* as '*' for all but its last 4 characters (all '*' when shorter than 4), and
\* every other field unchanged.
C17_MaskedFields ==
    MaskingStream =>
        \A k \in 1..last.pos :
            last.out[k + 1] =
                JoinWith([i \in 1..Len(last.cols) |->
                             ExpectedField(last.cols[i], last.given[k][i])], "|")
                \o <<"\n">>

\* A masking stream has emitted the line of a row with email a@a.a and
\* phone number 12121.
C17_Witness ==
    /\ MaskingStream
    /\ last.pos >= 1
    /\ last.cols = <<"user_id", "email", "phone_number">>
    /\ last.given[1][2] = PyStr(<<"a", "@", "a", ".", "a">>)
    /\ last.out[2] = <<"u", "|", "a", "@", "*", ".", "*", "|",
                       "*", "2", "1", "2", "1", "\n">>

\* The fields of an emitted line
FieldsOf(line) == Split(SubSeq(line, 1, Len(line) - 1), "|")

\* A cell holding a non-empty text value
HasValue(cell) == cell.t = "str" /\ cell.s # <<>>

\* C18: with the masking policy enabled, no data line emitted by any of the
\* three export operations shows the value of an email or phone_number column
\* of the streamed table as it is in the table.
C18_NoRawSensitiveValue ==
    (last.op = "stream" /\ last.masking) =>
        \A k \in 1..last.pos : \A i \in 1..Len(last.cols) :
            (last.cols[i] \in {"email", "phone_number"} /\ HasValue(last.given[k][i]))
                => FieldsOf(last.out[k + 1])[i] # last.given[k][i].s

\* C19: a stream that has emitted its header never raises while producing a
\* data line: whatever the cells of a row hold (a null or non-text email or
\* phone_number under masking included), it emits a line for the row and
\* goes on to the next row.
C19_NoRaiseAfterHeader ==
    (last.op = "stream" /\ last.out # <<>>) =>
        /\ last.raised = ""
        /\ last.exhausted => Len(last.out) = 1 + Len(itertuples(last.cols, last.given))

ReportOperations ==
    {"generate_report", "generate_user_report", "generate_org_user_report"}

\* A query of the report operation just run has failed.
QueryFailed ==
    /\ last.op \in ReportOperations
    /\ \E i \in 1..Len(last.calls) :
          last.calls[i].fn = "run_query" /\ ~last.calls[i].ok

\* C20: a query failure during any of the three report operations reaches
\* the caller as an error raised by the operation, never as the no-data
\* outcome None.
C20_QueryFailureIsAnError == QueryFailed => last.result = "raise"

\* generate_user_report was called with no email, no phone and no ehrms_id.
NoSelector ==
    /\ last.op = "generate_user_report"
    /\ \A i \in 1..Len(last.sel) : last.sel[i] = Empty

\* C21: a report operation called with no identity selector sends no query
\* and ends with an outcome of its own (InvalidFilterSpec), which is not the
\* no-data outcome None.
C21_NoSelectorIsRefused ==
    NoSelector =>
        /\ Count(last.calls, "run_query") = 0
        /\ last.result # "None"

\* The positions, in declared order, of the operators that are a prefix of
\* the trimmed value, and of those that also leave a number after them
PrefixPositions(ops, s) == { i \in 1..Len(ops) : StartsWith(s, ops[i]) }

FitPositions(ops, s) ==
    { i \in PrefixPositions(ops, s) :
         IsFloat(SubSeq(s, Len(ops[i]) + 1, Len(s))) }

First(positions) == CHOOSE i \in positions : \A j \in positions : i <= j

\* C22 as stated: a comparison field uses the first entry of valid_operators
\* that is a prefix of the trimmed value; when the remainder after that
\* operator is not a number the field is skipped, later operators not being
\* tried.
C22_FirstPrefixOnly ==
    ComparisonProbe(last) =>
        LET field == ComparisonField(last.shape)
            ops == ConfigOf(last.shape)[field].valid_operators
            s == Strip(last.filters[1][2].s)
            prefixes == PrefixPositions(ops, s)
        IN prefixes # {} =>
              LET op == ops[First(prefixes)]
                  rest == SubSeq(s, Len(op) + 1, Len(s))
              IN FilterPart(last) =
                    IF IsFloat(rest)
                    THEN <<Fragment("comparison", field, op, FloatOf(rest))>>
                    ELSE <<>>

\* C22, amended: a comparison field uses the first entry of valid_operators,
\* in declared order, that is a prefix of the trimmed value and leaves a
\* number after it; a prefix whose remainder is not a number is passed over
\* and the later operators are tried; the field is skipped only when no
\* operator fits.
C22_FirstFittingOperator ==
    ComparisonProbe(last) =>
        LET field == ComparisonField(last.shape)
            ops == ConfigOf(last.shape)[field].valid_operators
            s == Strip(last.filters[1][2].s)
            fits == FitPositions(ops, s)
        IN FilterPart(last) =
              IF fits = {} THEN <<>>
              ELSE LET op == ops[First(fits)]
                   IN <<Fragment("comparison", field, op,
                                 FloatOf(SubSeq(s, Len(op) + 1, Len(s))))>>

\* '<=7' under the configuration that lists '<' before '<=': '<' is a prefix
\* that leaves '=7', and the fragment is '<= 7.0'.
C22_Witness ==
    /\ ComparisonProbe(last)
    /\ last.shape = "enrolments_by_user"
    /\ last.filters[1][2].s = <<"<", "=", "7">>
    /\ First(PrefixPositions(USER_REPORT_FILTER_CONFIG["content_progress_percentage"].valid_operators,
                             last.filters[1][2].s)) = 2
    /\ FilterPart(last) = <<Fragment("comparison", "content_progress_percentage", LE, 7)>>

(***************************************************************************)
(* SpecThreads: concurrent calls of _get_mdo_id_org_list on the one cache. *)
(* A step is one operation on the cache or one query; the calls of the     *)
(* threads interleave between steps.                                       *)
(***************************************************************************)
\* Request threads of the server
MaxThreads == 2

ThreadIds == 1..MaxThreads

\* Where a thread stands in _get_mdo_id_org_list: "idle" (no call), "hit"
\* (the membership test was true), "miss" (it was false), "fetched" (the
\* query has returned), "done" (returned or raised).
Thread(pc, mdo_id, list, raised) ==
    [pc |-> pc, mdo_id |-> mdo_id, list |-> list, raised |-> raised]

IdleThread == Thread("idle", Empty, <<>>, "")

Threads(th) == [op |-> "threads", th |-> th]

ThreadsOf(o) == IF o.op = "threads" THEN o.th ELSE [t \in ThreadIds |-> IdleThread]

\* if mdo_id in _mdo_org_cache
CallBegins(t, mdo_id) ==
    /\ last.op \in {"idle", "threads"}
    /\ ThreadsOf(last)[t].pc = "idle"
    /\ last' = Threads([ThreadsOf(last) EXCEPT ![t] =
                  Thread(IF Contains(mdo_org_cache, mdo_id) THEN "hit" ELSE "miss",
                         mdo_id, <<>>, "")])
    /\ UNCHANGED <<mdo_org_cache, hierarchy, win>>

\* return _mdo_org_cache[mdo_id]
CacheHit(t) ==
    /\ last.op = "threads"
    /\ last.th[t].pc = "hit"
    /\ last' = Threads([last.th EXCEPT ![t] =
                  IF Contains(mdo_org_cache, @.mdo_id)
                  THEN Thread("done", @.mdo_id,
                              EntryOf(mdo_org_cache, @.mdo_id).val, "")
                  ELSE Thread("done", @.mdo_id, <<>>, "KeyError")])
    /\ UNCHANGED <<mdo_org_cache, hierarchy, win>>

\* hierarchy_df = bigquery_service.run_query(org_hierarchy_query)
RunQuery(t, qok) ==
    /\ last.op = "threads"
    /\ last.th[t].pc = "miss"
    /\ last' = Threads([last.th EXCEPT ![t] =
                  IF qok
                  THEN Thread("fetched", @.mdo_id,
                              OrgHierarchyQuery(hierarchy, @.mdo_id), "")
                  ELSE Thread("done", @.mdo_id, <<>>, "QueryError")])
    /\ UNCHANGED <<mdo_org_cache, hierarchy, win>>

\* _mdo_org_cache[mdo_id] = mdo_id_org_list; return mdo_id_org_list
CacheStore(t) ==
    /\ last.op = "threads"
    /\ last.th[t].pc = "fetched"
    /\ mdo_org_cache' = SetItem(mdo_org_cache, last.th[t].mdo_id, last.th[t].list)
    /\ last' = Threads([last.th EXCEPT ![t].pc = "done"])
    /\ UNCHANGED <<hierarchy, win>>

\* The caller has the list or the exception; the thread is free again.
CallEnds(t) ==
    /\ last.op = "threads"
    /\ last.th[t].pc = "done"
    /\ last' = Threads([last.th EXCEPT ![t] = IdleThread])
    /\ UNCHANGED <<mdo_org_cache, hierarchy, win>>

\* A tick of the timer goes by, whatever the threads are doing.
TickThreads ==
    /\ mdo_org_cache # <<>>
    /\ mdo_org_cache' = Elapse(mdo_org_cache, 1)
    /\ UNCHANGED <<hierarchy, last, win>>

NextThreads ==
    \/ \E t \in ThreadIds, mdo_id \in OrgIds : CallBegins(t, mdo_id)
    \/ \E t \in ThreadIds : CacheHit(t)
    \/ \E t \in ThreadIds, qok \in BOOLEAN : RunQuery(t, qok)
    \/ \E t \in ThreadIds : CacheStore(t)
    \/ \E t \in ThreadIds : CallEnds(t)
    \/ TickThreads

SpecThreads == Init /\ [][NextThreads]_vars

\* C23: under any interleaving of concurrent _get_mdo_id_org_list calls no
\* call fails because of the interleaving (a call fails only when its own
\* query fails), and every value the cache holds for a key is the complete
\* result of one hierarchy query for that key.
C23_NoFailureByInterleaving ==
    /\ \A t \in ThreadIds : ThreadsOf(last)[t].raised \in {"", "QueryError"}
    /\ \A i \in 1..Len(mdo_org_cache) :
          mdo_org_cache[i].val = OrgHierarchyQuery(hierarchy, mdo_org_cache[i].key)

\* resolveScope(x_org_id) plus x_org_id: what the authorization check grants
GrantedScope(x_org_id) ==
    ToSet(OrgHierarchyQuery(hierarchy, x_org_id)) \cup {x_org_id}

\* A query of the enrolment or user table scoped by a set of org ids
OrgScopedQuery(e) == e.fn = "run_query" /\ e.key \in {"enrolments", "users"}

\* C24: for every request that passes _validate_request_common, every org id
\* in the org-id set of the report query then executed lies within
\* resolveScope(x_org_id) plus x_org_id, also when additional_filters carries
\* mdo_id_list.
C24_QueryWithinGrantedScope ==
    last.op \in {"get_report", "get_org_user_report"} =>
        \A i \in 1..Len(last.calls) :
            OrgScopedQuery(last.calls[i]) =>
                ToSet(last.calls[i].ids) \subseteq GrantedScope(last.x)

\* generate_user_report, given an orgId, has sent its enrolment query.
UserReportQueried ==
    /\ last.op = "generate_user_report"
    /\ last.org # Empty
    /\ \E i \in 1..Len(last.calls) :
          last.calls[i].fn = "run_query" /\ last.calls[i].key = "enrolments_by_user"

\* C25: in generate_user_report with a non-empty orgId, every user id placed
\* in the user_id IN clause of the enrolment query belongs to a user whose
\* own org is orgId or lies in resolveScope(orgId), also when the user lookup
\* returns several rows with different mdo_id values.
C25_EveryQueriedUserInScope ==
    UserReportQueried =>
        \A i \in 1..Len(last.calls) :
            (last.calls[i].fn = "run_query" /\ last.calls[i].key = "enrolments_by_user") =>
                \A k \in 1..Len(last.uq) :
                    InList(last.uq[k].user_id, last.calls[i].ids) =>
                        last.uq[k].mdo_id \in GrantedScope(last.org)

\* isValidOrg was called with both arguments non-empty.
OrgCheck == last.op = "isValidOrg" /\ last.x # Empty /\ last.org # Empty

\* C26 as stated: for an unchanged hierarchy table the result of
\* isValidOrg(X, Y) is the same whether the entry for X is absent from the
\* cache, freshly stored, or already read and extended by earlier calls: it
\* is what the hierarchy says, Y in resolveScope(X) or Y = X.
C26_DecisionIgnoresCache ==
    OrgCheck => (last.result = "True" <=> last.org \in GrantedScope(last.x))

\* C26, amended: whenever the resolver returns a list, from the cache or
\* from a query, isValidOrg(X, Y) is true exactly when Y is in
\* resolveScope(X) or Y = X, whatever earlier calls have read and appended to
\* the cached lists; when the resolver raises, which depends on whether the
\* entry is cached and how old it is, the answer is false.
C26_DecisionIgnoresAppends ==
    OrgCheck =>
        /\ last.res = "list" =>
              (last.result = "True" <=> last.org \in GrantedScope(last.x))
        /\ last.res # "list" => last.result = "False"

\* A check of another org was answered from a cached list that earlier
\* calls had extended; it was refused, as the hierarchy has it.
C26_Witness ==
    /\ OrgCheck
    /\ last.res = "list"
    /\ \E i \in 1..Len(last.calls) :
          last.calls[i].fn = "cache_getitem" /\ last.calls[i].ok
    /\ Len(last.list) > Len(OrgHierarchyQuery(hierarchy, last.x))
    /\ last.org \notin GrantedScope(last.x)
    /\ last.result = "False"

(***************************************************************************)
(* SpecPair: two user-by-org streams with masking on, over tables that     *)
(* differ only in what the masking hides, pulled side by side.             *)
(***************************************************************************)
PairEmailChars == {"a", "b", "@", "."}

\* Position of the first '@' of an email, 0 when it has none
FirstAt(e) ==
    IF \A i \in 1..Len(e) : e[i] # "@" THEN 0
    ELSE CHOOSE i \in 1..Len(e) : e[i] = "@" /\ \A j \in 1..(i - 1) : e[j] # "@"

\* Two emails that differ only in the characters of the domain labels: same
\* length, same local part, same '@' and dots at the same positions.
SameButDomainChars(e1, e2) ==
    /\ Len(e1) = Len(e2)
    /\ FirstAt(e1) = FirstAt(e2)
    /\ \A i \in 1..Len(e1) :
          \/ e1[i] = e2[i]
          \/ /\ FirstAt(e1) > 0 /\ i > FirstAt(e1)
             /\ {e1[i], e2[i]} \cap {"@", "."} = {}

\* Two phone numbers of the same length with the same last four characters
SameButLeadingDigits(p1, p2) ==
    /\ Len(p1) = Len(p2)
    /\ \A i \in 1..Len(p1) : i > Len(p1) - 4 => p1[i] = p2[i]

PairRow(e, ph) == <<PyStr(<<"u">>), PyStr(e), PyStr(ph)>>

PairTable(e, ph) == Table(<<"user_id", "email", "phone_number">>, <<PairRow(e, ph)>>)

\* The emails that differ from e in characters of its domain labels only
DomainVariants(e) ==
    { e2 \in { [i \in 1..Len(e) |->
                   IF FirstAt(e) > 0 /\ i > FirstAt(e) /\ e[i] \notin {"@", "."}
                   THEN f[i] ELSE e[i]] : f \in [1..Len(e) -> {"a", "b"}] } :
         SameButDomainChars(e, e2) }

\* The pairs of result tables explored: one row each; the emails run through
\* PairEmailChars with phone numbers that differ in the first digit, and the
\* phone numbers run through PhoneChars with emails that differ in the domain.
SimilarPairs ==
    UNION { { <<PairTable(e1, <<"1", "2", "1", "2", "1">>),
                PairTable(e2, <<"2", "2", "1", "2", "1">>)>> :
                e2 \in DomainVariants(e1) } :
            e1 \in Strings(PairEmailChars, MaxEmailLen) }
    \cup
    { <<PairTable(<<"a", "@", "a">>, pp[1]), PairTable(<<"a", "@", "b">>, pp[2])>> :
        pp \in { qq \in Strings(PhoneChars, MaxPhoneLen)
                          \X Strings(PhoneChars, MaxPhoneLen) :
                     SameButLeadingDigits(qq[1], qq[2]) } }

StreamPair(a, b) == [op |-> "pair", a |-> a, b |-> b]

\* generate_org_user_report returns a stream for each of the two tables.
ExportPair(required_columns) ==
    /\ Idle
    /\ \E tp \in SimilarPairs :
          last' = StreamPair(NewStream("users", TRUE, tp[1], required_columns),
                             NewStream("users", TRUE, tp[2], required_columns))
    /\ UNCHANGED <<mdo_org_cache, hierarchy, win>>

\* Both consumers pull the next line.
PullPair ==
    /\ last.op = "pair"
    /\ last.a.state # "closed"
    /\ last.b.state # "closed"
    /\ last' = StreamPair(GeneratorNext(last.a), GeneratorNext(last.b))
    /\ UNCHANGED <<mdo_org_cache, hierarchy, win>>

NextPair ==
    \/ \E required_columns \in RequiredColumns \cup {<<"phone_number", "email">>} :
          ExportPair(required_columns)
    \/ PullPair

SpecPair == Init /\ [][NextPair]_vars

\* C27: with masking enabled, two result tables that differ only in the
\* characters of email domain labels (same local part, same dots, same label
\* lengths) and in the characters of phone_number before its last four (same
\* length) give the same output, line for line, and end the same way.
C27_MaskedCharactersNotRevealed ==
    last.op = "pair" =>
        /\ last.a.out = last.b.out
        /\ last.a.state = last.b.state
        /\ last.a.raised = last.b.raised

\* Two tables with different emails and different phone numbers have each
\* emitted their data line.
C27_Witness ==
    /\ last.op = "pair"
    /\ last.a.pos = 1
    /\ last.a.given[1][2] # last.b.given[1][2]
    /\ last.a.given[1][3] # last.b.given[1][3]
    /\ InList("email", last.a.cols)
    /\ InList("phone_number", last.a.cols)

\* C28: with masking enabled the user-by-org stream never emits a non-empty
\* email or phone_number as stored: every emitted phone_number holds at least
\* one '*' and every emitted email differs from the stored value, whatever
\* the length of the phone number and the number of '@' in the email.
C28_NeverEmittedAsStored ==
    MaskingStream =>
        \A k \in 1..last.pos : \A i \in 1..Len(last.cols) :
            LET cell == last.given[k][i]
                field == FieldsOf(last.out[k + 1])[i]
            IN /\ (last.cols[i] = "email" /\ HasValue(cell)) => field # cell.s
               /\ (last.cols[i] = "phone_number" /\ HasValue(cell)) =>
                     InList("*", field)

\* The ids whose hierarchy query failed in the call o
FailedIds(o) ==
    { o.calls[i].ids[1] : i \in { j \in 1..Len(o.calls) :
                                     /\ o.calls[j].fn = "run_query"
                                     /\ o.calls[j].key = "hierarchy"
                                     /\ ~o.calls[j].ok } }

\* C29: a call in which the hierarchy query of _get_mdo_id_org_list fails on
\* a cache miss leaves the org cache as it was, but for the time that went
\* by: no entry is created or altered, none for that id above all, so the
\* next call for the id finds no entry and queries again.
C29_FailedQueryLeavesCache ==
    [][(Idle /\ HierQueryFailed(last')) =>
          /\ \E d \in 0..1 : mdo_org_cache' = Elapse(mdo_org_cache, d)
          /\ \A id \in FailedIds(last') : ~HasKey(mdo_org_cache', id)]_vars

\* The hierarchy query for an id failed while the cache held the list of
\* another id, which is still there.
C29_Witness ==
    /\ HierQueryFailed(last)
    /\ mdo_org_cache # <<>>
    /\ \A id \in FailedIds(last) : ~HasKey(mdo_org_cache, id)

(***************************************************************************)
(* ReportService (v1) beside ReportServiceV2                               *)
(***************************************************************************)
\* The ids of the report query a call sent, if it sent one
ReportQueryIds(calls) ==
    LET sent == SelectSeq(calls, LAMBDA e : e.fn = "run_query" /\ e.key \in Shapes)
    IN IF sent = <<>> THEN [sent |-> FALSE, ids |-> <<>>]
       ELSE [sent |-> TRUE, ids |-> sent[Len(sent)].ids]

\* Mutant: the date filter is not added to the v1 query.
V1WhereClauseNoDate(shape, dated, ids) ==
    IF shape = "enrolments_by_user"
    THEN <<Fragment("identity", "user_id", <<"I", "N">>, ids)>>
    ELSE <<Fragment("identity", "mdo_id", <<"i", "n">>, ids)>>

\* The predicates of a v1 query in the order the f-string writes them:
\* WHERE mdo_id in (...){date_filter}, and WHERE user_id IN (...) followed by
\* += " AND enrolled_on BETWEEN ..."
V1WhereClause(shape, dated, ids) ==
    IF shape = "enrolments_by_user"
    THEN <<Fragment("identity", "user_id", <<"I", "N">>, ids)>>
            \o (IF dated THEN <<Fragment("identity", "enrolled_on", <<"BETWEEN">>,
                                         <<"dates">>)>>
                ELSE <<>>)
    ELSE <<Fragment("identity", "mdo_id", <<"i", "n">>, ids)>>
            \o (IF dated
                THEN <<Fragment("identity",
                                IF shape = "enrolments" THEN "enrolled_on"
                                ELSE "user_registration_date",
                                <<"BETWEEN">>, <<"dates">>)>>
                ELSE <<>>)

\* fetch_master_enrolments_data and fetch_master_user_data up to the outcome
\* of run_query: the org list, the query, None for an empty result and for
\* any exception.
V1OrgScopedData(c, table, key, mdo_id, full, qok, d, rq) ==
    LET bq == <<Ev("BigQueryService", "", <<>>, TRUE)>>
        query(cache, mdo_id_org_list, calls) ==
            [cache |-> cache,
             result |-> IF rq = "rows" THEN "stream" ELSE "None",
             raised |-> "",
             caught |-> IF rq = "fail" THEN "QueryError" ELSE "",
             calls |-> Append(calls, Ev("run_query", key, mdo_id_org_list,
                                        rq # "fail"))]
    IN IF full
       THEN LET r == get_mdo_id_org_list(c, table, mdo_id, qok, d)
            IN IF r.raised # ""
               THEN [cache |-> r.cache, result |-> "None", raised |-> "",
                     caught |-> r.raised, calls |-> bq \o r.calls]
               ELSE \* mdo_id_org_list.append(mdo_id) on the list returned
                    query(AppendAliased(r.cache, mdo_id, mdo_id),
                          Append(r.list, mdo_id), bq \o r.calls)
       ELSE query(c, <<mdo_id>>, bq)

fetch_master_enrolments_data(c, table, mdo_id, full, qok, d, rq) ==
    V1OrgScopedData(c, table, "enrolments", mdo_id, full, qok, d, rq)

fetch_master_user_data(c, table, mdo_id, full, qok, d, rq) ==
    V1OrgScopedData(c, table, "users", mdo_id, full, qok, d, rq)

fetch_user_cumulative_report(c, table, sel, orgId, uq, qok, d, rq) ==
    LET bq == <<Ev("BigQueryService", "", <<>>, TRUE)>>
        user_df == IF uq = "fail" THEN <<>> ELSE uq
        lookup == <<Ev("run_query", "user_lookup", UserIds(user_df), uq # "fail")>>
        out(result, raised, calls, cache) ==
            [cache |-> cache, result |-> result, raised |-> raised,
             caught |-> "", calls |-> calls]
        enrolments(cache, calls) ==
            out(IF rq = "rows" THEN "stream"
                ELSE IF rq = "empty" THEN "None" ELSE "raise",
                IF rq = "fail" THEN "QueryError" ELSE "",
                Append(calls, Ev("run_query", "enrolments_by_user",
                                 UserIds(user_df), rq # "fail")),
                cache)
    IN IF sel[1] = Empty /\ sel[2] = Empty /\ sel[3] = Empty
       THEN out("None", "", <<>>, c)
       ELSE IF uq = "fail"
       THEN out("raise", "QueryError", bq \o lookup, c)
       ELSE IF user_df = <<>>
       THEN out("None", "", bq \o lookup, c)
       ELSE LET user_mdo_id == user_df[1].mdo_id
            IN IF orgId # Empty /\ user_mdo_id # orgId
               THEN LET r == get_mdo_id_org_list(c, table, orgId, qok, d)
                        calls == bq \o lookup \o r.calls
                        appended == AppendAliased(r.cache, orgId, orgId)
                    IN IF r.raised # ""
                       THEN out("raise", r.raised, calls, r.cache)
                       ELSE IF ~InList(user_mdo_id, Append(r.list, orgId))
                       THEN out("raise", "ValueError", calls, appended)
                       ELSE enrolments(appended, calls)
               ELSE enrolments(c, bq \o lookup)

\* The v1 generate_csv_stream run to its end by the consumer: the lines it
\* yields and the exception that ends it, if one does.
v1_generate_csv_stream(shape, masking, table, required_columns) ==
    LET df == IF required_columns # <<>>
              THEN Project(table, ExistingColumns(required_columns, table))
              ELSE table
        cols == df.cols
        tuples == itertuples(cols, df.rows)
        masked(col, cell) ==
            IF ~(masking /\ Truthy(cell)) THEN cell
            ELSE IF col = "email"
            THEN LET parts == Split(cell.s, "@")
                 IN IF Len(parts) = 2
                    THEN LET domain_parts == Split(parts[2], ".")
                         IN PyStr(parts[1] \o <<"@">> \o
                                  JoinWith([k \in 1..Len(domain_parts) |->
                                               Stars(Len(domain_parts[k]))], "."))
                    ELSE PyStr(parts[1])
            ELSE IF col = "phone_number"
            THEN LET phone == StrOf(cell)
                 IN IF Len(phone) >= 4
                    THEN PyStr(Stars(Len(phone) - 4)
                               \o SubSeq(phone, Len(phone) - 3, Len(phone)))
                    ELSE PyStr(Stars(Len(phone)))
            ELSE cell
        row_dict(row) == RowDict(cols, row)
        raises(row) ==
            /\ shape = "users" /\ masking
            /\ "email" \in ToSet(cols)
            /\ Truthy(row_dict(row)["email"])
            /\ row_dict(row)["email"].t # "str"
        line(row) ==
            IF shape = "users"
            THEN Line([k \in 1..Len(cols) |-> masked(cols[k], row_dict(row)[cols[k]])])
            ELSE Line(row)
        bad == { i \in 1..Len(tuples) : raises(tuples[i]) }
        stop == IF bad = {} THEN Len(tuples) + 1
                ELSE CHOOSE i \in bad : \A j \in bad : i <= j
    IN [lines |-> <<Header(cols)>> \o [i \in 1..(stop - 1) |-> line(tuples[i])],
        raised |-> IF bad = {} THEN "" ELSE "AttributeError"]

\* The consumer pulls a v2 stream until it is closed.
RECURSIVE Drain(_)
Drain(g) == IF g.state = "closed" THEN g ELSE Drain(GeneratorNext(g))

\* The result tables the report query answers with
CompatTables ==
    { Table(<<"user_id", "email", "phone_number">>,
            << <<PyStr(<<"u">>), PyStr(<<"a", "@", "a", ".", "a">>),
                 PyStr(<<"1", "2", "1", "2", "1">>)>>,
               <<PyStr(<<"v">>), PyNone, PyNone>> >>),
      Table(<<"user_id", "email", "phone_number">>,
            << <<PyStr(<<"u">>), PyStr(<<"a", "@", "a", "@", "a">>),
                 PyStr(<<"1", "2">>)>>,
               <<PyStr(<<"v">>), PyNaN, PyStr(<<"1", "2", "1", "2", "1">>)>>,
               <<PyStr(<<"u">>), PyStr(<<"a">>), PyNone>> >>),
      Table(<<"phone_number", "user_id">>,
            << <<PyStr(<<"1", "2", "1", "2", "1">>), PyStr(<<"u">>)>> >>) }

\* What a stream is made from besides the operation: the rows of the result,
\* required_columns and IS_MASKING_ENABLED
StreamVariants ==
    [table : CompatTables, required_columns : RequiredColumns, masking : BOOLEAN]

\* What the caller of a v1 operation sees
V1Side(shape, dated, r) ==
    LET q == ReportQueryIds(r.calls)
    IN [result |-> r.result, raised |-> r.raised, calls |-> r.calls,
        cache |-> r.cache,
        where |-> IF q.sent THEN V1WhereClause(shape, dated, q.ids) ELSE <<>>]

\* What the caller of a v2 operation sees; additional_filters is empty
V2Side(shape, dated, r) ==
    LET q == ReportQueryIds(r.calls)
    IN [result |-> r.result, raised |-> r.raised, calls |-> r.calls,
        cache |-> r.cache,
        where |-> IF q.sent THEN WhereClauseParts(shape, dated, q.ids, <<>>).parts
                  ELSE <<>>]

\* The same call is put to the v1 and to the v2 operation from the same
\* cache.
BothAnswer(shape, dated, args, r1, r2) ==
    /\ ListsBounded(r2.cache)
    /\ mdo_org_cache' = r2.cache
    /\ last' = [op |-> "v1_v2", shape |-> shape, dated |-> dated, args |-> args,
                v1 |-> V1Side(shape, dated, r1), v2 |-> V2Side(shape, dated, r2)]
    /\ UNCHANGED <<hierarchy, win>>

CallArgs(org, full, sel, uq) ==
    [org |-> org, full |-> full, sel |-> sel, uqok |-> uq # "fail",
     uq |-> IF uq = "fail" THEN <<>> ELSE uq]

\* generate_report beside fetch_master_enrolments_data, and
\* generate_org_user_report beside fetch_master_user_data
BothOrgScoped(shape, mdo_id, full, dated, qok, d, rq) ==
    /\ Idle
    /\ \E r1 \in {IF shape = "enrolments"
                  THEN fetch_master_enrolments_data(mdo_org_cache, hierarchy,
                                                    mdo_id, full, qok, d, rq)
                  ELSE fetch_master_user_data(mdo_org_cache, hierarchy, mdo_id,
                                              full, qok, d, rq)},
          r2 \in {IF shape = "enrolments"
                  THEN generate_report(mdo_org_cache, hierarchy, mdo_id, full,
                                       NoMdoIdList, qok, d, rq)
                  ELSE generate_org_user_report(mdo_org_cache, hierarchy, mdo_id,
                                                full, NoMdoIdList, qok, d, rq)} :
          BothAnswer(shape, dated, CallArgs(mdo_id, full, <<>>, <<>>), r1, r2)

\* generate_user_report beside fetch_user_cumulative_report
BothUserReport(sel, orgId, uq, dated, qok, d, rq) ==
    /\ Idle
    /\ \E r1 \in {fetch_user_cumulative_report(mdo_org_cache, hierarchy, sel,
                                               orgId, uq, qok, d, rq)},
          r2 \in {generate_user_report(mdo_org_cache, hierarchy, sel, orgId, uq,
                                       qok, d, rq)} :
          BothAnswer("enrolments_by_user", dated,
                     CallArgs(orgId, FALSE, sel, uq), r1, r2)

\* The consumer reads the stream each version returned to its end; both
\* were made from the same result, required_columns and masking switch.
BothRead ==
    /\ last.op = "v1_v2"
    /\ last.v1.result = "stream" /\ last.v2.result = "stream"
    /\ \E sv \in StreamVariants :
       \E s \in {v1_generate_csv_stream(last.shape, sv.masking, sv.table,
                                        sv.required_columns)},
          g \in {Drain(NewStream(last.shape, sv.masking, sv.table,
                                 sv.required_columns))} :
          last' = [op |-> "v1_v2_read", shape |-> last.shape, sv |-> sv,
                   v1 |-> [lines |-> s.lines, failed |-> s.raised],
                   v2 |-> [lines |-> g.out, failed |-> g.raised]]
    /\ UNCHANGED <<mdo_org_cache, hierarchy, win>>

NextV1 ==
    \/ Tick
    \/ Return
    \/ BothRead
    \/ \E shape \in {"enrolments", "users"}, mdo_id \in OrgIds, full \in BOOLEAN,
          dated \in BOOLEAN, qok \in BOOLEAN, d \in 0..1, rq \in ReportOutcomes :
          BothOrgScoped(shape, mdo_id, full, dated, qok, d, rq)
    \/ \E sel \in Selectors, orgId \in OrgArgs, uq \in UserLookups,
          dated \in BOOLEAN, qok \in BOOLEAN, d \in 0..1, rq \in ReportOutcomes :
          BothUserReport(sel, orgId, uq, dated, qok, d, rq)

SpecV1 == Init /\ [][NextV1]_vars

\* A call has been answered by both versions.
BothAnswered == last.op = "v1_v2"

\* The streams of both versions have been read to their end.
BothStreamsRead == last.op = "v1_v2_read"

\* C30: with empty additional_filters a v2 operation and its v1 counterpart,
\* given the same arguments, cache and backend responses, send the same
\* sequence of queries with the same set of conjoined predicates, leave the
\* same cache, end in the same outcome (None, raised error or stream) and
\* emit the same lines.
C30_V2BehavesAsV1 ==
    /\ BothAnswered =>
        /\ last.v2.calls = last.v1.calls
        /\ ToSet(last.v2.where) = ToSet(last.v1.where)
        /\ Len(last.v2.where) = Len(last.v1.where)
        /\ last.v2.cache = last.v1.cache
        /\ last.v2.result = last.v1.result
        /\ last.v2.raised = last.v1.raised
    /\ BothStreamsRead =>
        /\ last.v2.lines = last.v1.lines
        /\ last.v2.failed = last.v1.failed

\* Both versions of the org user report answered a dated full report after
\* the hierarchy query, with a query whose predicates the two write in a
\* different order.
C30_Witness ==
    /\ BothAnswered
    /\ last.shape = "users"
    /\ last.dated /\ last.args.full
    /\ last.v1.result = "stream"
    /\ last.v1.where # last.v2.where
    /\ Len(last.v1.calls) >= 3

==============================================================================
